---- MODULE Spec2Model ----
(***************************************************************************)
(* GBIF3D: the occurrence-data acquisition layer.                          *)
(*   - lib/cache.ts          the in-memory TTL response cache              *)
(*   - lib/gbif.ts           searchOccurrences (429 retry, caching) and    *)
(*                           searchOccurrencesChunked (paging)             *)
(*   - components/GlobeViewer.tsx  the debounced refetch controller        *)
(* Time is in milliseconds and is measured from the present: Date.now()    *)
(* reads `now`, which stays 0, and the passing of d ms moves every stored  *)
(* instant (an expiry time, a timer's due time) d ms into the past.  What  *)
(* the code computes from the clock (now + ttl, now > expiresAt) is        *)
(* unchanged by this choice of origin.                                     *)
(* A string that the code inspects character by                            *)
(* character (the Retry-After header) is a sequence of one-character       *)
(* strings.  An optional value is the empty sequence (absent) or a         *)
(* one-element sequence (present).                                         *)
(***************************************************************************)
EXTENDS Integers, Sequences, FiniteSets, TLC

None == << >>
Some(v) == << v >>

Min(a, b) == IF a <= b THEN a ELSE b
Max(a, b) == IF a >= b THEN a ELSE b

(* ------------------------- program constants --------------------------- *)
OCCURRENCE_PAGE_MAX == 300
OCCURRENCE_LIMIT == OCCURRENCE_PAGE_MAX
OCCURRENCE_MAX_TOTAL == 100000
OCCURRENCE_CHUNK_SIZE == OCCURRENCE_PAGE_MAX
CHUNK_DELAY_MS == 400
RATE_LIMIT_BACKOFF_MS == 8000
MAX_RETRIES_ON_429 == 2
OCCURRENCE_CACHE_TTL_MS == 15 * 60 * 1000
DEFAULT_TTL_MS == 5 * 60 * 1000
FETCH_DEBOUNCE_MS == 800

(* ------------------------------ bounds --------------------------------- *)
\* cache API operations (setCache, getCached, clearCache) per behaviour of SpecCache
MaxCacheOps == 4
\* calls of suggestSpecies and searchSpeciesByVernacular per behaviour of SpecSpecies
MaxSpeciesCalls == 3
\* PDF export requests per behaviour of SpecPdf
MaxPdfRequests == 3
\* fetchOccurrences runs per behaviour of SpecClient
MaxOps == 2
\* HTTP attempts per behaviour of SpecClient
MaxHttp == 4
\* fetchOccurrences runs per behaviour of Spec (the controller)
MaxFetches == 2
\* properties of a params object handed to cacheKey
MaxProperties == 3
\* the longest list of API records, and of imported records, of a display
MaxRecords == 2
\* the most data rows of an imported CSV text, and items of an imported JSON array
MaxRows == 3

VARIABLES
    now,            \* Date.now(), the origin of time
    cache,          \* cache.ts: the Map key -> [data, expiresAt]
    cacheOps,       \* SpecCache: number of cache API operations so far
    lastOp,         \* SpecCache: the most recent cache API operation and what it returned
    written,        \* SpecCache: per key, the most recent setCache since the last clearCache
    dead,           \* SpecCache: keys a read found expired, with no setCache since
    pc,             \* SpecClient: where the running fetchOccurrences is suspended
    fetchArgs,      \* the filters handed to searchOccurrencesChunked
    chunk,          \* the locals of searchOccurrencesChunked
    call,           \* the locals of the running searchOccurrences call
    wakeAt,         \* when the pending delay(ms) timer is due, if one is pending
    res,            \* the page searchOccurrences returned, not yet consumed
    outcome,        \* how the promise of searchOccurrencesChunked settled
    calls,          \* searchOccurrences calls of the running operation
    http,           \* HTTP attempts of the running operation
    ops,            \* number of fetchOccurrences runs started
    nresp,          \* number of successful HTTP responses so far
    nhttp,          \* number of HTTP attempts so far
    last429,        \* when the 429 being waited out arrived, and its Retry-After header
    fetched,        \* per wire query, the latest successful HTTP fetch (id, at) and the
                    \* responses fetched with it (ids)
    occurrences,    \* GlobeViewer state: occurrences
    reported,       \* what onOccurrencesChange last handed to the parent
    error,          \* GlobeViewer state: error
    loading,        \* GlobeViewer state: loading
    filters,        \* GlobeViewer props: filters
    selectedRegionBounds, \* GlobeViewer props: selectedRegionBounds (absent: the current view)
    viewBounds,     \* GlobeViewer state: viewBounds
    fetchTimeout,   \* fetchTimeoutRef.current: a timer id, if it holds one
    timers,         \* the pending setTimeout timers of GlobeViewer: id, due time, closure
    inflight,       \* Spec: the fetchOccurrences runs started and not yet settled
    burst,          \* Spec: changes since a timer was last started with none pending (0..2)
    panned,         \* Spec: the latest event of the controller was a camera report
    failed,         \* Spec: the message of the failure, if the latest event of the controller
                    \*       was a fetch failing
    started,        \* Spec: number of fetchOccurrences runs started
    importedOccurrences, \* Home state: importedOccurrences
    selectedYear,   \* Home state: selectedYear
    selectedMonth,  \* Home state: selectedMonth
    alert,          \* Home: what window.alert showed in the latest import, if it showed
    species,        \* the running suggestSpecies / searchSpeciesByVernacular call and its trace
    pdf,            \* Home: the PDF export requests, their listeners, timers and reports
    input,          \* the call of a function that is driven directly: its name and arguments
    output          \* what that call returned

cacheVars == << cache, cacheOps, lastOp, written, dead >>
clockVars == << now >>

(* ---------------------------- lib/cache.ts ----------------------------- *)
MapSet(m, k, v) == [x \in DOMAIN m \cup {k} |-> IF x = k THEN v ELSE m[x]]
MapDelete(m, k) == [x \in DOMAIN m \ {k} |-> m[x]]
EmptyMap == [x \in {} |-> None]

\* getCached without the expiry test
getCachedNoExpiry(c, key, t) ==
    IF key \notin DOMAIN c
    THEN [value |-> None, cache |-> c]
    ELSE [value |-> Some(c[key].data), cache |-> c]

\* getCached(key) at time t: the value returned (None for null) and the Map afterwards
getCached(c, key, t) ==
    IF key \notin DOMAIN c
    THEN [value |-> None, cache |-> c]
    ELSE IF t > c[key].expiresAt
         THEN [value |-> None, cache |-> MapDelete(c, key)]
         ELSE [value |-> Some(c[key].data), cache |-> c]

\* setCache that keeps the expiry of an entry it replaces
setCacheKeepsExpiry(c, key, data, ttl, t) ==
    MapSet(c, key, [data |-> data,
                    expiresAt |-> IF key \in DOMAIN c THEN c[key].expiresAt
                                  ELSE t + (IF ttl = None THEN DEFAULT_TTL_MS ELSE ttl[1])])

\* setCache(key, data, ttlMs) at time t: the Map afterwards; ttl = None is the default argument
setCache(c, key, data, ttl, t) ==
    MapSet(c, key, [data |-> data,
                    expiresAt |-> t + (IF ttl = None THEN DEFAULT_TTL_MS ELSE ttl[1])])

clearCache(c) == EmptyMap

(* A JavaScript string is the sequence of its characters.  An object is the   *)
(* sequence of its properties [k, t, v] in insertion order: k the key, t the  *)
(* type of the value ("num", "str", "arr" for an array of numbers, "undef"),  *)
(* v the value as a sequence (<< n >> for the number n, the characters of a   *)
(* string, the elements of an array, << >> for undefined).                    *)
Num(k, n) == [k |-> k, t |-> "num", v |-> << n >>]
Str(k, chars) == [k |-> k, t |-> "str", v |-> chars]
Arr(k, ns) == [k |-> k, t |-> "arr", v |-> ns]
Undef(k) == [k |-> k, t |-> "undef", v |-> << >>]

\* the characters of the keys in the order of their UTF-16 code units
CodeUnits ==
    << "0", "1", "2", "3", "4", "5", "6", "7", "8", "9",
       "A", "B", "C", "D", "E", "F", "G", "H", "I", "J", "K", "L", "M", "N", "O", "P", "Q",
       "R", "S", "T", "U", "V", "W", "X", "Y", "Z",
       "a", "b", "c", "d", "e", "f", "g", "h", "i", "j", "k", "l", "m", "n", "o", "p", "q",
       "r", "s", "t", "u", "v", "w", "x", "y", "z" >>
CodeOrder(ch) == CHOOSE i \in 1..Len(CodeUnits) : CodeUnits[i] = ch

\* a < b as Array.prototype.sort() compares strings
RECURSIVE StrLess(_, _)
StrLess(a, b) ==
    IF a = << >> THEN b # << >>
    ELSE IF b = << >> THEN FALSE
    ELSE IF a[1] = b[1] THEN StrLess(Tail(a), Tail(b))
    ELSE CodeOrder(a[1]) < CodeOrder(b[1])

\* keys.sort()
RECURSIVE SortInsert(_, _)
SortInsert(sorted, key) ==
    IF sorted = << >> THEN << key >>
    ELSE IF StrLess(key, sorted[1]) THEN << key >> \o sorted
    ELSE << sorted[1] >> \o SortInsert(Tail(sorted), key)
RECURSIVE Sort(_)
Sort(keys) ==
    IF keys = << >> THEN << >> ELSE SortInsert(Sort(SubSeq(keys, 1, Len(keys) - 1)),
                                               keys[Len(keys)])

\* Object.keys(params)
ObjectKeys(params) == [i \in 1..Len(params) |-> params[i].k]

\* String(n) for an integer n >= 0
RECURSIVE NumberToString(_)
NumberToString(n) ==
    IF n < 10 THEN << CodeUnits[n + 1] >>
    ELSE NumberToString(n \div 10) \o << CodeUnits[(n % 10) + 1] >>

RECURSIVE Join(_, _)
\* parts.join(sep)
Join(parts, sep) ==
    IF parts = << >> THEN << >>
    ELSE IF Len(parts) = 1 THEN parts[1]
    ELSE parts[1] \o sep \o Join(Tail(parts), sep)

Quote(chars) == << "\"" >> \o chars \o << "\"" >>

\* JSON.stringify of a property value that is not undefined
JsonValue(p) ==
    CASE p.t = "num" -> NumberToString(p.v[1])
      [] p.t = "str" -> Quote(p.v)
      [] p.t = "arr" ->
           << "[" >> \o Join([i \in 1..Len(p.v) |-> NumberToString(p.v[i])], << "," >>)
                     \o << "]" >>

\* JSON.stringify(params, keys): the properties named in keys, in the order of keys, the
\* undefined ones left out
JsonStringify(params, keys) ==
    LET Has(k) == \E i \in 1..Len(params) : params[i].k = k /\ params[i].t # "undef"
        Prop(k) == params[CHOOSE i \in 1..Len(params) : params[i].k = k]
        Member(k) == Quote(k) \o << ":" >> \o JsonValue(Prop(k))
        kept == SelectSeq(keys, Has)
    IN  << "{" >> \o Join([i \in 1..Len(kept) |-> Member(kept[i])], << "," >>) \o << "}" >>

\* cacheKey that stringifies the keys in insertion order
cacheKeyUnsorted(prefix, params) ==
    prefix \o << ":" >> \o JsonStringify(params, ObjectKeys(params))

\* cacheKey(prefix, params)
cacheKey(prefix, params) ==
    LET sorted == JsonStringify(params, Sort(ObjectKeys(params)))
    IN  prefix \o << ":" >> \o sorted

(* ----------------------------- lib/gbif.ts ------------------------------ *)
Digits == {"0", "1", "2", "3", "4", "5", "6", "7", "8", "9"}
DigitVal(ch) ==
    CASE ch = "0" -> 0 [] ch = "1" -> 1 [] ch = "2" -> 2 [] ch = "3" -> 3 [] ch = "4" -> 4
      [] ch = "5" -> 5 [] ch = "6" -> 6 [] ch = "7" -> 7 [] ch = "8" -> 8 [] ch = "9" -> 9

\* /^\d+$/.test(s)
IsDigitString(s) == Len(s) > 0 /\ \A i \in 1..Len(s) : s[i] \in Digits

\* parseInt(s, 10) of a string of digits
RECURSIVE ParseInt10(_)
ParseInt10(s) ==
    IF s = << >> THEN 0
    ELSE ParseInt10(SubSeq(s, 1, Len(s) - 1)) * 10 + DigitVal(s[Len(s)])

\* WaitMs without the 60 s cap
WaitMsUncapped(retryAfter) ==
    IF retryAfter # None /\ IsDigitString(retryAfter[1])
    THEN ParseInt10(retryAfter[1]) * 1000
    ELSE RATE_LIMIT_BACKOFF_MS

\* the wait before the retry that follows a 429 with this Retry-After header
WaitMs(retryAfter) ==
    IF retryAfter # None /\ IsDigitString(retryAfter[1])
    THEN Min(60000, ParseInt10(retryAfter[1]) * 1000)
    ELSE RATE_LIMIT_BACKOFF_MS

\* params.taxonKey: the taxonKeys array when it is non-empty, else the single taxonKey
TaxonKeyParam(fs) ==
    IF Len(fs.taxonKeys) > 0 THEN [form |-> "array", v |-> fs.taxonKeys]
    ELSE IF fs.taxonKey # None /\ fs.taxonKey[1] # 0 THEN [form |-> "number", v |-> fs.taxonKey]
    ELSE [form |-> "undefined", v |-> << >>]

\* the params object of searchOccurrences
BuildParams(fs, limit, offset) ==
    [limit |-> limit, offset |-> offset, geometry |-> fs.geometry,
     taxonKey |-> TaxonKeyParam(fs)]

\* CacheKeyParams that leaves the offset out of the key
CacheKeyParamsWithoutOffset(params) ==
    << Num(<< "l", "i", "m", "i", "t" >>, params.limit) >>
    \o (IF params.geometry = None THEN << >>
        ELSE << Str(<< "g", "e", "o", "m", "e", "t", "r", "y" >>, params.geometry) >>)
    \o << LET k == << "t", "a", "x", "o", "n", "K", "e", "y" >>
          IN  CASE params.taxonKey.form = "array" -> Arr(k, params.taxonKey.v)
                [] params.taxonKey.form = "number" -> Num(k, params.taxonKey.v[1])
                [] params.taxonKey.form = "undefined" -> Undef(k) >>

\* the object { ...params, taxonKey: params.taxonKey } handed to cacheKey.  The text of
\* the geometry is one element of the string that holds it
CacheKeyParams(params) ==
    << Num(<< "l", "i", "m", "i", "t" >>, params.limit),
       Num(<< "o", "f", "f", "s", "e", "t" >>, params.offset) >>
    \o (IF params.geometry = None THEN << >>
        ELSE << Str(<< "g", "e", "o", "m", "e", "t", "r", "y" >>, params.geometry) >>)
    \o << LET k == << "t", "a", "x", "o", "n", "K", "e", "y" >>
          IN  CASE params.taxonKey.form = "array" -> Arr(k, params.taxonKey.v)
                [] params.taxonKey.form = "number" -> Num(k, params.taxonKey.v[1])
                [] params.taxonKey.form = "undefined" -> Undef(k) >>

\* the key of searchOccurrences: cacheKey('occ', ...)
OccKey(params) == cacheKey(<< "o", "c", "c" >>, CacheKeyParams(params))

\* serializeOccurrenceParams: an array becomes one taxonKey=v per element, a number one
\* taxonKey=v, undefined nothing
serializeOccurrenceParams(params) ==
    [limit |-> params.limit, offset |-> params.offset, geometry |-> params.geometry,
     taxonKey |-> params.taxonKey.v]

\* ShouldRetry with attempt <= MAX_RETRIES_ON_429
ShouldRetryOnceMore(status, attempt) == status = Some(429) /\ attempt <= MAX_RETRIES_ON_429
\* ShouldRetry with one retry less
ShouldRetryOnce(status, attempt) == status = Some(429) /\ attempt < MAX_RETRIES_ON_429 - 1
\* ShouldRetry for every HTTP error status
ShouldRetryAnyStatus(status, attempt) == status # None /\ attempt < MAX_RETRIES_ON_429

\* status === 429 && attempt < MAX_RETRIES_ON_429
ShouldRetry(status, attempt) == status = Some(429) /\ attempt < MAX_RETRIES_ON_429

\* new GBIFApiError(response.data.message ?? ax.message ?? fallback, status)
GBIFApiError(failure) ==
    [status |-> failure.status,
     message |-> IF failure.bodyMessage # None THEN failure.bodyMessage[1]
                 ELSE IF failure.axMessage # None THEN failure.axMessage[1]
                 ELSE "GBIF occurrence search failed"]

RECURSIVE Length(_)
\* allResults.length: the records of all pages held
Length(pages) == IF pages = << >> THEN 0 ELSE pages[1].n + Length(Tail(pages))

\* allResults.push(...res.results)
Push(pages, r) == IF r.n = 0 THEN pages ELSE Append(pages, [id |-> r.id, n |-> r.n])

\* ChunkLimit that always asks for a whole chunk
ChunkLimitWhole(c) == OCCURRENCE_CHUNK_SIZE

\* const limit = Math.min(OCCURRENCE_CHUNK_SIZE, maxTotal - allResults.length)
ChunkLimit(c) == Min(OCCURRENCE_CHUNK_SIZE, c.maxTotal - Length(c.allResults))

\* PageEnds that ignores a short page
PageEndsAtEndOfRecords(r, limit) == r.endOfRecords

\* res.results.length < limit || endOfRecords: the loop breaks
PageEnds(r, limit) == r.n < limit \/ r.endOfRecords

\* ClampTotal without the floor of 1
ClampTotalNoFloor(limit) ==
    Min(IF limit = None THEN OCCURRENCE_LIMIT ELSE limit[1], OCCURRENCE_MAX_TOTAL)

\* maxTotal of searchOccurrencesChunked
ClampTotal(limit) ==
    Min(Max(1, IF limit = None THEN OCCURRENCE_LIMIT ELSE limit[1]), OCCURRENCE_MAX_TOTAL)

NoParams == BuildParams([geometry |-> None, taxonKey |-> None, taxonKeys |-> << >>], 0, 0)
NoCall == [params |-> NoParams, key |-> << >>, attempt |-> 0, at |-> 0, hit |-> FALSE,
           lastErr |-> None]
NoChunk == [maxTotal |-> 0, direct |-> TRUE, allResults |-> << >>, totalCount |-> 0,
            endOfRecords |-> FALSE, offset |-> 0, limit |-> 0]
NoOutcome == [kind |-> "none", results |-> << >>, count |-> 0, endOfRecords |-> FALSE,
              limit |-> 0, status |-> None, message |-> ""]
NoFilters == [geometry |-> None, taxonKey |-> None, taxonKeys |-> << >>]
NoFetchArgs == [filters |-> NoFilters, limit |-> None]

\* searchOccurrences, from its entry to its first await: a cache hit returns the cached
\* page, a miss issues the first HTTP attempt
SearchOccurrencesBegin(fs, limit, offset) ==
    LET params == BuildParams(fs, limit, offset)
        key == OccKey(params)
        g == getCached(cache, key, now)
        hit == g.value # None
    IN  /\ hit \/ nhttp < MaxHttp
        /\ cache' = g.cache
        /\ call' = [params |-> params, key |-> key, attempt |-> 0, at |-> now, hit |-> hit,
                     lastErr |-> None]
        /\ calls' = Append(calls, [offset |-> offset, limit |-> limit, got |-> g.value])
        /\ res' = g.value
        /\ pc' = IF hit THEN "page" ELSE "http"
        /\ nhttp' = IF hit THEN nhttp ELSE nhttp + 1
        /\ http' = IF hit THEN http
                   ELSE Append(http, [offset |-> offset, limit |-> limit, attempt |-> 0,
                                      answer |-> "pending", status |-> None])

\* the promise of searchOccurrencesChunked resolves with the aggregate
ResolveAggregate(c) ==
    /\ pc' = "resolved"
    /\ outcome' = [NoOutcome EXCEPT !.kind = "ok", !.results = c.allResults,
                     !.count = c.totalCount, !.endOfRecords = c.endOfRecords,
                     !.limit = Length(c.allResults)]
    /\ chunk' = c
    /\ call' = NoCall
    /\ res' = None
    /\ UNCHANGED << cache, nhttp, calls, http >>

\* ChunkedFailure that swallows the error and resolves with the pages held so far
ChunkedFailureKeepsPages(c, err) ==
    [pc |-> "resolved",
     outcome |-> [NoOutcome EXCEPT !.kind = "ok", !.results = c.allResults,
                                   !.count = c.totalCount, !.limit = Length(c.allResults)]]

\* searchOccurrences throws err inside searchOccurrencesChunked, which has no try/catch
\* around the await: its promise rejects with err, whatever the locals c hold
ChunkedFailure(c, err) ==
    [pc |-> "rejected",
     outcome |-> [NoOutcome EXCEPT !.kind = "error", !.status = err.status,
                                   !.message = err.message]]

\* the head of the while loop of searchOccurrencesChunked, with the locals c
LoopHead(fs, c) ==
    IF Length(c.allResults) < c.maxTotal /\ ~c.endOfRecords
    THEN LET limit == ChunkLimit(c)
         IN  /\ chunk' = [c EXCEPT !.limit = limit]
             /\ outcome' = outcome
             /\ SearchOccurrencesBegin(fs, limit, c.offset)
    ELSE ResolveAggregate(c)

(* ----------------- GlobeViewer.fetchOccurrences, one run ----------------- *)
\* await searchOccurrencesChunked resolved: setOccurrences, onOccurrencesChange
FetchResolved(results) ==
    /\ occurrences' = results
    /\ reported' = results
    /\ error' = error

\* FetchRejected that leaves the previous result set displayed and reported
FetchRejectedKeepsStale(err) ==
    /\ error' = Some(err.message)
    /\ occurrences' = occurrences
    /\ reported' = reported

\* the catch block: setError(message), setOccurrences([]), onOccurrencesChange([])
FetchRejected(err) ==
    /\ error' = Some(err.message)
    /\ occurrences' = << >>
    /\ reported' = << >>

displayVars == << occurrences, reported, error, loading >>
clientVars == << pc, fetchArgs, chunk, call, wakeAt, res, outcome, calls, http, ops, nresp,
                 nhttp, last429, fetched >>

\* the filter sets the user can have selected: one taxonomic group, the same taxon picked
\* in the species search, and two taxa picked there
FilterSets ==
    { [geometry |-> Some("POLYGON_A"), taxonKey |-> Some(212), taxonKeys |-> << >>],
      [geometry |-> Some("POLYGON_A"), taxonKey |-> None, taxonKeys |-> << 212 >>],
      [geometry |-> Some("POLYGON_A"), taxonKey |-> None, taxonKeys |-> << 212, 359 >>] }
\* filters.limit
FetchLimits == {None, Some(0), Some(250), Some(301), Some(100001)}

\* fetchOccurrences(bounds) up to the first await inside searchOccurrencesChunked
FetchStart ==
    /\ pc = "idle"
    /\ ops < MaxOps
    /\ ops' = ops + 1
    /\ loading' = TRUE
    /\ error' = None
    /\ UNCHANGED << occurrences, reported >>
    /\ \E f \in FilterSets, l \in FetchLimits :
         LET limit == IF l = None THEN Some(1000) ELSE l
             maxTotal == ClampTotal(limit)
         IN  /\ fetchArgs' = [filters |-> f, limit |-> limit]
             /\ IF maxTotal <= OCCURRENCE_CHUNK_SIZE
                THEN /\ chunk' = [NoChunk EXCEPT !.maxTotal = maxTotal, !.limit = maxTotal]
                     /\ outcome' = NoOutcome
                     /\ SearchOccurrencesBegin(f, maxTotal, 0)
                ELSE LoopHead(f, [NoChunk EXCEPT !.maxTotal = maxTotal, !.direct = FALSE])
    /\ UNCHANGED << wakeAt, nresp, last429, fetched >>

\* what the occurrence search endpoint can answer to a request for `limit` records
PageSizes(limit) == {n \in {0, limit - 1, limit} : n >= 0}
PageCounts == {5000}
FailStatuses == {Some(429), Some(400), None}
RetryAfterHeaders == {None, Some(<< "2" >>), Some(<< "6", "1" >>), Some(<< "2", "s" >>)}
Failure(status) ==
    [status |-> status,
     bodyMessage |-> IF status = Some(400) THEN Some("Invalid geometry") ELSE None,
     axMessage |-> IF status = None THEN Some("Network Error")
                   ELSE Some("Request failed")]

SetAnswer(log, answer, status) ==
    [log EXCEPT ![Len(log)].answer = answer, ![Len(log)].status = status]

\* the HTTP attempt succeeds: setCache(key, data, OCCURRENCE_CACHE_TTL_MS); return data
HttpOk ==
    /\ pc = "http"
    /\ \E n \in PageSizes(call.params.limit), eor \in BOOLEAN, cnt \in PageCounts :
         LET data == [id |-> nresp + 1, n |-> n, count |-> cnt, endOfRecords |-> eor]
         IN  /\ cache' = setCache(cache, call.key, data,
                                  Some(OCCURRENCE_CACHE_TTL_MS), now)
             /\ res' = Some(data)
             /\ fetched' = LET w == serializeOccurrenceParams(call.params)
                            IN  MapSet(fetched, w,
                                       [id |-> nresp + 1, at |-> now,
                                        ids |-> {nresp + 1} \cup
                                                (IF w \in DOMAIN fetched THEN fetched[w].ids
                                                 ELSE {})])
             /\ calls' = [calls EXCEPT ![Len(calls)].got = Some(data)]
    /\ nresp' = nresp + 1
    /\ pc' = "page"
    /\ http' = SetAnswer(http, "ok", Some(200))
    /\ last429' = None
    /\ UNCHANGED << fetchArgs, chunk, call, wakeAt, outcome, ops, nhttp >>
    /\ UNCHANGED displayVars

\* HttpFail that stores an empty page under the key of the call
HttpFailWritesCache ==
    /\ pc = "http"
    /\ \E status \in FailStatuses :
       \E retryAfter \in (IF status = Some(429) THEN RetryAfterHeaders ELSE {None}) :
         LET lastErr == GBIFApiError(Failure(status))
         IN  /\ http' = SetAnswer(http, "error", status)
             /\ IF ShouldRetry(status, call.attempt)
                THEN /\ pc' = "retryWait"
                     /\ wakeAt' = Some(now + WaitMs(retryAfter))
                     /\ last429' = Some([at |-> now, retryAfter |-> retryAfter])
                     /\ call' = [call EXCEPT !.lastErr = Some(lastErr)]
                     /\ UNCHANGED << outcome, res >>
                ELSE /\ pc' = ChunkedFailure(chunk, lastErr).pc
                     /\ outcome' = ChunkedFailure(chunk, lastErr).outcome
                     /\ call' = NoCall
                     /\ res' = None
                     /\ last429' = None
                     /\ UNCHANGED wakeAt
    /\ cache' = setCache(cache, call.key,
                         [id |-> 0, n |-> 0, count |-> 0, endOfRecords |-> TRUE],
                         Some(OCCURRENCE_CACHE_TTL_MS), now)
    /\ UNCHANGED << fetchArgs, chunk, calls, ops, nresp, nhttp, fetched >>
    /\ UNCHANGED displayVars

\* the HTTP attempt fails: the catch block of searchOccurrences.  A 429 with retries left
\* waits and retries; anything else is thrown, and nothing in searchOccurrencesChunked
\* catches it
HttpFail ==
    /\ pc = "http"
    /\ \E status \in FailStatuses :
       \E retryAfter \in (IF status = Some(429) THEN RetryAfterHeaders ELSE {None}) :
         LET lastErr == GBIFApiError(Failure(status))
         IN  /\ http' = SetAnswer(http, "error", status)
             /\ IF ShouldRetry(status, call.attempt)
                THEN /\ pc' = "retryWait"
                     /\ wakeAt' = Some(now + WaitMs(retryAfter))
                     /\ last429' = Some([at |-> now, retryAfter |-> retryAfter])
                     /\ call' = [call EXCEPT !.lastErr = Some(lastErr)]
                     /\ UNCHANGED << outcome, res >>
                ELSE /\ pc' = ChunkedFailure(chunk, lastErr).pc
                     /\ outcome' = ChunkedFailure(chunk, lastErr).outcome
                     /\ call' = NoCall
                     /\ res' = None
                     /\ last429' = None
                     /\ UNCHANGED wakeAt
    /\ UNCHANGED << cache, fetchArgs, chunk, calls, ops, nresp, nhttp, fetched >>
    /\ UNCHANGED displayVars

\* delay(waitMs) is over: continue.  The for loop counts the attempt and, while
\* attempt <= MAX_RETRIES_ON_429, issues the request again; after the loop lastErr is thrown
RetryFires ==
    /\ pc = "retryWait"
    /\ now >= wakeAt[1]
    /\ wakeAt' = None
    /\ IF call.attempt + 1 <= MAX_RETRIES_ON_429
       THEN /\ nhttp < MaxHttp
            /\ nhttp' = nhttp + 1
            /\ call' = [call EXCEPT !.attempt = @ + 1]
            /\ http' = Append(http, [offset |-> call.params.offset,
                                     limit |-> call.params.limit,
                                     attempt |-> call.attempt + 1, answer |-> "pending",
                                     status |-> None])
            /\ pc' = "http"
            /\ UNCHANGED << outcome, last429 >>
       ELSE /\ pc' = ChunkedFailure(chunk, call.lastErr[1]).pc
            /\ outcome' = ChunkedFailure(chunk, call.lastErr[1]).outcome
            /\ call' = NoCall
            /\ last429' = None
            /\ UNCHANGED << nhttp, http >>
    /\ UNCHANGED << cache, fetchArgs, chunk, res, calls, ops, nresp, fetched >>
    /\ UNCHANGED displayVars

\* await searchOccurrences(...) returns a page to searchOccurrencesChunked
PageArrives ==
    /\ pc = "page"
    /\ LET r == res[1] IN
       IF chunk.direct
       THEN /\ pc' = "resolved"
            /\ outcome' = [NoOutcome EXCEPT !.kind = "ok", !.results = Push(<< >>, r),
                             !.count = r.count, !.endOfRecords = r.endOfRecords,
                             !.limit = call.params.limit]
            /\ call' = NoCall
            /\ res' = None
            /\ UNCHANGED << cache, chunk, wakeAt, calls, http, nhttp >>
       ELSE LET c1 == [chunk EXCEPT !.allResults = Push(@, r), !.totalCount = r.count,
                                    !.endOfRecords = r.endOfRecords]
                c2 == [c1 EXCEPT !.offset = @ + chunk.limit]
            IN  IF PageEnds(r, chunk.limit)
                THEN ResolveAggregate(c1) /\ UNCHANGED wakeAt
                ELSE IF c2.offset < c2.maxTotal
                     THEN /\ pc' = "chunkDelay"
                          /\ wakeAt' = Some(now + CHUNK_DELAY_MS)
                          /\ chunk' = c2
                          /\ call' = NoCall
                          /\ res' = None
                          /\ UNCHANGED << cache, outcome, calls, http, nhttp >>
                     ELSE LoopHead(fetchArgs.filters, c2) /\ UNCHANGED wakeAt
    /\ UNCHANGED << fetchArgs, ops, nresp, last429, fetched >>
    /\ UNCHANGED displayVars

\* ChunkDelayFires that does not wait for the timer
ChunkDelayFiresAtOnce ==
    /\ pc = "chunkDelay"
    /\ wakeAt' = None
    /\ LoopHead(fetchArgs.filters, chunk)
    /\ UNCHANGED << fetchArgs, ops, nresp, last429, fetched >>
    /\ UNCHANGED displayVars

\* delay(CHUNK_DELAY_MS) is over: back to the head of the while loop
ChunkDelayFires ==
    /\ pc = "chunkDelay"
    /\ now >= wakeAt[1]
    /\ wakeAt' = None
    /\ LoopHead(fetchArgs.filters, chunk)
    /\ UNCHANGED << fetchArgs, ops, nresp, last429, fetched >>
    /\ UNCHANGED displayVars

\* await searchOccurrencesChunked settles: the rest of fetchOccurrences, finally included
FetchSettle ==
    /\ pc \in {"resolved", "rejected"}
    /\ IF pc = "resolved" THEN FetchResolved(outcome.results) ELSE FetchRejected(outcome)
    /\ loading' = FALSE
    /\ pc' = "idle"
    /\ fetchArgs' = NoFetchArgs
    /\ chunk' = NoChunk
    /\ outcome' = NoOutcome
    /\ calls' = << >>
    /\ http' = << >>
    /\ UNCHANGED << cache, call, res, wakeAt, ops, nresp, nhttp, last429, fetched >>

(* ------------- GlobeViewer: the debounced refetch controller ------------ *)
\* what the user can have selected in the filter panel
UserFilters ==
    { [taxonKey |-> None, taxonKeys |-> << >>],
      [taxonKey |-> Some(212), taxonKeys |-> << >>],
      [taxonKey |-> None, taxonKeys |-> << 359 >>] }
UserRegions == {None, Some("AFRICA"), Some("EUROPE")}
ViewBounds == {"DEFAULT_BOUNDS", "ZOOMED"}
ErrorMessages == {"Network Error", "Request failed"}

\* hasTaxonFilter that accepts an empty taxonKeys
hasTaxonFilterEmptyKeys(f) == Len(f.taxonKeys) >= 0 \/ f.taxonKey # None

\* (filters.taxonKeys?.length ?? 0) > 0 || filters.taxonKey != null
hasTaxonFilter(f) == Len(f.taxonKeys) > 0 \/ f.taxonKey # None

\* clearTimeout(id): the timer with this id, if it is pending, is cancelled
clearTimeout(pending, id) == {t \in pending : t.id # id}

\* ClearFetchTimeout that clears nothing
ClearFetchTimeoutNever(pending, ref) == pending

\* if (fetchTimeoutRef.current) clearTimeout(fetchTimeoutRef.current)
ClearFetchTimeout(pending, ref) ==
    IF ref # None THEN clearTimeout(pending, ref[1]) ELSE pending

\* the id setTimeout returns: one that no pending timer has and that nothing holds
FreshTimerId(pending, ref) ==
    CHOOSE id \in 1..(Cardinality(pending) + 2) :
        /\ \A t \in pending : t.id # id
        /\ ref # Some(id)
        /\ \A j \in 1..(id - 1) : (\E t \in pending : t.id = j) \/ ref = Some(j)

\* the effect with dependencies [selectedRegionBounds, fetchOccurrences, hasTaxonFilter],
\* run for the filters f and the region r of the new render: the cleanup of the previous
\* run and the body both clear the timer the ref holds.  The callback of the new timer
\* closes over f, r and the viewBounds of this render
RefetchEffect(f, r) ==
    LET cleared == ClearFetchTimeout(ClearFetchTimeout(timers, fetchTimeout), fetchTimeout)
        id == FreshTimerId(cleared, fetchTimeout)
    IN  IF ~hasTaxonFilter(f)
        THEN /\ timers' = cleared
             /\ burst' = 0
             /\ panned' = FALSE
             /\ failed' = None
             /\ UNCHANGED fetchTimeout
             /\ occurrences' = << >>
             /\ reported' = << >>
             /\ error' = None
        ELSE /\ timers' = cleared \cup
                            {[id |-> id, due |-> now + FETCH_DEBOUNCE_MS,
                              bounds |-> IF r # None THEN r[1] ELSE viewBounds,
                              filters |-> f]}
             /\ fetchTimeout' = Some(id)
             /\ burst' = IF timers = {} THEN 1 ELSE Min(burst + 1, 2)
             /\ panned' = FALSE
             /\ failed' = None
             /\ UNCHANGED << occurrences, reported, error >>

\* RefetchDeps with the time filter among the dependencies
RefetchDepsWithTimeFilter(f, r, year, month) == << r, f, hasTaxonFilter(f), year, month >>

\* the dependency list [selectedRegionBounds, fetchOccurrences, hasTaxonFilter] of the
\* effect in a render with the props filters f, selectedRegionBounds r, timeFilterYear
\* and timeFilterMonth: fetchOccurrences is the callback of the filter fields of f
RefetchDeps(f, r, year, month) == << r, f, hasTaxonFilter(f) >>

\* GlobeViewer renders again with the same filters and region objects and the time filter
\* year, month: React runs the effect when a dependency differs from the previous render
TimeFilterRerender(year, month) ==
    IF RefetchDeps(filters, selectedRegionBounds, year, month)
         # RefetchDeps(filters, selectedRegionBounds, selectedYear, selectedMonth)
    THEN /\ RefetchEffect(filters, selectedRegionBounds)
         /\ UNCHANGED << filters, selectedRegionBounds, viewBounds, inflight, started, loading >>
    ELSE UNCHANGED << filters, selectedRegionBounds, viewBounds, fetchTimeout, timers,
                      inflight, burst, panned, failed, started, displayVars >>

\* the parent passes new filters: fetchOccurrences is a new callback, the effect runs.
\* A non-empty taxonKeys is a new array each time, also with the same content
ChangeFilters ==
    /\ \E f \in UserFilters :
         /\ f # filters \/ Len(f.taxonKeys) > 0
         /\ filters' = f
         /\ RefetchEffect(f, selectedRegionBounds)
    /\ UNCHANGED << selectedRegionBounds, viewBounds, inflight, started, loading >>

\* the parent passes another selected region: the effect runs
ChangeRegion ==
    /\ \E r \in UserRegions :
         /\ r # selectedRegionBounds
         /\ selectedRegionBounds' = r
         /\ RefetchEffect(filters, r)
    /\ UNCHANGED << filters, viewBounds, inflight, started, loading >>

\* PanZoom with viewBounds among the dependencies of the effect
PanZoomRunsEffect ==
    /\ \E b \in ViewBounds :
         /\ b # viewBounds
         /\ viewBounds' = b
    /\ RefetchEffect(filters, selectedRegionBounds)
    /\ UNCHANGED << filters, selectedRegionBounds, inflight, started, loading >>

\* handleBoundsChange: the camera moved; viewBounds is no dependency of the effect, and
\* the parent keeps passing the same selectedRegionBounds
PanZoom ==
    /\ \E b \in ViewBounds :
         /\ b # viewBounds
         /\ viewBounds' = b
    /\ panned' = TRUE
    /\ failed' = None
    /\ UNCHANGED << filters, selectedRegionBounds, fetchTimeout, timers, inflight, started,
                    burst, occurrences, reported, error, loading >>

\* a debounce timer fires: its callback runs fetchOccurrences(selectedRegionBounds ??
\* viewBounds) up to the await, then sets fetchTimeoutRef.current = null
DebounceFires ==
    /\ \E t \in timers :
         /\ now >= t.due
         /\ timers' = timers \ {t}
         /\ inflight' = MapSet(inflight, started + 1,
                               [bounds |-> t.bounds, filters |-> t.filters])
    /\ started < MaxFetches
    /\ started' = started + 1
    /\ fetchTimeout' = None
    /\ loading' = TRUE
    /\ error' = None
    /\ panned' = FALSE
    /\ failed' = None
    /\ UNCHANGED << filters, selectedRegionBounds, viewBounds, burst, occurrences, reported >>

\* the searchOccurrencesChunked promise of run i settles, and fetchOccurrences continues
\* after its await: nothing in it asks whether a later run has started
FetchSettles(i, settled) ==
    /\ IF settled.kind = "ok" THEN FetchResolved(settled.results)
       ELSE FetchRejected(settled)
    /\ loading' = FALSE
    /\ inflight' = MapDelete(inflight, i)

SettleFetch ==
    /\ \E i \in DOMAIN inflight :
         \/ /\ FetchSettles(i, [NoOutcome EXCEPT !.kind = "ok",
                                                 !.results = << [id |-> i, n |-> 1] >>])
            /\ failed' = None
         \/ \E m \in ErrorMessages :
              /\ FetchSettles(i, [NoOutcome EXCEPT !.kind = "error", !.message = m])
              /\ failed' = Some(m)
    /\ panned' = FALSE
    /\ UNCHANGED << filters, selectedRegionBounds, viewBounds, fetchTimeout, timers,
                    started, burst >>

controllerVars == << filters, selectedRegionBounds, viewBounds, fetchTimeout, timers, inflight,
                     burst, panned, failed,
                     started >>

(* ------------------ app/page.tsx: handleExportPDF ----------------------- *)
\* the delay of the fallback timer of handleExportPDF
PDF_TIMEOUT_MS == 2500

\* pdf.requests: per call of handleExportPDF its closure (generated), whether its
\* onCanvasReady listens on window, its timer (pending, and due at), and the calls of
\* generateOccurrencePdf it has made.  pdf.frames: the requestAnimationFrame callbacks of
\* ExportPdfCanvasHandler that are pending.  pdf.events: canvas-ready events dispatched
NoPdf == [requests |-> << >>, frames |-> 0, events |-> 0]

\* the timer callback without the test of the flag
TimeoutCallbackUnguarded(r) ==
    [r EXCEPT !.generated = TRUE, !.listening = FALSE,
              !.reports = Append(@, [cause |-> "timeout", image |-> None])]

\* the callback of setTimeout(..., 2500): nothing when generated, else
\* generateOccurrencePdf(opts) without a map image
TimeoutCallback(r) ==
    IF r.generated THEN r
    ELSE [r EXCEPT !.generated = TRUE, !.listening = FALSE,
                   !.reports = Append(@, [cause |-> "timeout", image |-> None])]

\* onCanvasReady(e) of the request r: nothing when generated, else the listener is
\* removed and generateOccurrencePdf gets the image of the event
onCanvasReady(r, image) ==
    IF r.generated THEN r
    ELSE [r EXCEPT !.generated = TRUE, !.listening = FALSE,
                   !.reports = Append(@, [cause |-> "event", image |-> image])]

\* window.dispatchEvent of a canvas-ready event: every listener registered runs
DispatchCanvasReady(p, image) ==
    [p EXCEPT !.requests = [i \in DOMAIN p.requests |->
                               IF p.requests[i].listening
                               THEN onCanvasReady(p.requests[i], image)
                               ELSE p.requests[i]],
              !.events = @ + 1]

\* what the export-pdf event meets: no ExportPdfCanvasHandler mounted; a viewer without
\* canvas; requestRender throwing; a canvas, captured in the next animation frame
PdfScenes == {"unmounted", "noCanvas", "renderThrows", "canvas"}

\* handleExportPDF: the listener is registered, the export-pdf event is dispatched and
\* handled synchronously, then the timer is set
handleExportPDF ==
    /\ Len(pdf.requests) < MaxPdfRequests
    /\ \E scene \in PdfScenes :
         LET r == [generated |-> FALSE, listening |-> TRUE, timer |-> TRUE,
                   due |-> now + PDF_TIMEOUT_MS, reports |-> << >>]
             registered == [pdf EXCEPT !.requests = Append(@, r)]
         IN  pdf' = CASE scene \in {"noCanvas", "renderThrows"} ->
                           DispatchCanvasReady(registered, None)
                      [] scene = "canvas" -> [registered EXCEPT !.frames = @ + 1]
                      [] scene = "unmounted" -> registered

\* the requestAnimationFrame callback of ExportPdfCanvasHandler: the canvas is captured
\* and canvas-ready dispatched with the data URL, or toDataURL throws and nothing is
\* dispatched
AnimationFrame ==
    /\ pdf.frames > 0
    /\ \E captured \in BOOLEAN :
         LET run == [pdf EXCEPT !.frames = @ - 1]
         IN  pdf' = IF captured THEN DispatchCanvasReady(run, Some("dataUrl")) ELSE run

\* the timer of request i fires
PdfTimeout(i) ==
    /\ i \in DOMAIN pdf.requests
    /\ pdf.requests[i].timer
    /\ now >= pdf.requests[i].due
    /\ pdf' = [pdf EXCEPT !.requests[i] = [TimeoutCallback(@) EXCEPT !.timer = FALSE]]
PdfTimeoutFires == \E i \in 1..MaxPdfRequests : PdfTimeout(i)

\* the instants at which a pending timer of handleExportPDF falls due, and half its
\* delay before
PdfDues ==
    LET pending == {i \in DOMAIN pdf.requests : pdf.requests[i].timer}
    IN  {pdf.requests[i].due : i \in pending}
        \cup {pdf.requests[i].due - PDF_TIMEOUT_MS \div 2 : i \in pending}

(* ------------------------------ the clock ------------------------------ *)
\* The instants at which the passing of time changes what the program does: a pending
\* delay(ms) timer falls due; and, while nothing is running, the cache entry that expires
\* first reaches its expiry time or has just passed it, or the last one has passed it.
\* The clock is observed at these instants; the latency of a request is not counted.
Expiries == {cache[k].expiresAt : k \in DOMAIN cache}
TickTargets ==
    IF PdfDues # {} THEN PdfDues
    ELSE IF timers # {}
    THEN {t.due : t \in timers} \cup {t.due - FETCH_DEBOUNCE_MS \div 2 : t \in timers}
    ELSE IF pc \in {"retryWait", "chunkDelay"} THEN {wakeAt[1]}
    ELSE IF pc = "idle" /\ Expiries # {}
         THEN LET first == CHOOSE t \in Expiries : \A u \in Expiries : t <= u
                  last == CHOOSE t \in Expiries : \A u \in Expiries : t >= u
              IN  {first, first + 1, last + 1}
         ELSE {}

Earlier(stamped, d) == [k \in DOMAIN stamped |-> [stamped[k] EXCEPT !.at = @ - d]]

\* d ms pass
Elapse(d) ==
    /\ cache' = [k \in DOMAIN cache |-> [cache[k] EXCEPT !.expiresAt = @ - d]]
    /\ wakeAt' = IF wakeAt = None THEN None ELSE Some(wakeAt[1] - d)
    /\ timers' = {[t EXCEPT !.due = @ - d] : t \in timers}
    /\ last429' = IF last429 = None THEN None ELSE Some([last429[1] EXCEPT !.at = @ - d])
    /\ call' = IF call = NoCall THEN call ELSE [call EXCEPT !.at = @ - d]
    /\ fetched' = Earlier(fetched, d)
    /\ written' = Earlier(written, d)
    /\ lastOp' = IF lastOp.op = "none" THEN lastOp ELSE [lastOp EXCEPT !.at = @ - d]
    /\ pdf' = [pdf EXCEPT !.requests = [i \in DOMAIN @ |-> [@[i] EXCEPT !.due = @ - d]]]
    /\ UNCHANGED now

Tick == \E t \in TickTargets : t > now /\ Elapse(t - now)

(* ------------------- the cache API driven directly --------------------- *)
pureVars == << input, output >>
homeVars == << importedOccurrences, selectedYear, selectedMonth, alert >>
panelVars == << species, pdf >>
programVars == << now, cacheVars, clientVars, displayVars, controllerVars >>
NoInput == [fn |-> "none"]

\* the prefixes of the three callers of cacheKey
KeyPrefixes ==
    { << "o", "c", "c" >>,
      << "s", "u", "g", "g", "e", "s", "t" >>,
      << "s", "p", "e", "c", "i", "e", "s", "-", "s", "e", "a", "r", "c", "h", "-",
         "v", "e", "r", "n", "a", "c", "u", "l", "a", "r" >> }
\* properties of the params objects of the callers and of the tests
KeyProperties ==
    { Num(<< "a" >>, 1), Num(<< "b" >>, 2), Num(<< "l", "i", "m", "i", "t" >>, 20),
      Str(<< "q" >>, << "p", "u", "m", "a" >>),
      Arr(<< "t", "a", "x", "o", "n", "K", "e", "y" >>, << 212, 359 >>),
      Undef(<< "o", "f", "f", "s", "e", "t" >>) }
\* the objects of up to MaxProperties of them, in every insertion order
KeyObjects ==
    UNION { { o \in [1..n -> KeyProperties] : \A i, j \in 1..n : o[i] = o[j] => i = j }
            : n \in 0..MaxProperties }

\* cacheKey(prefix, params)
CallCacheKey ==
    /\ \E prefix \in KeyPrefixes, params \in KeyObjects :
         /\ input' = [fn |-> "cacheKey", prefix |-> prefix, params |-> params]
         /\ output' = cacheKey(prefix, params)
    /\ UNCHANGED << programVars, homeVars, panelVars >>

CacheKeys == {"k1", "k2"}
CacheValues == {"v1", "v2"}
CacheTtls == {None, Some(OCCURRENCE_CACHE_TTL_MS)}

NoOp == [op |-> "none", key |-> "", value |-> None, at |-> 0, expired |-> FALSE, wasDead |-> FALSE]

\* setCache(k, v, ttl)
CacheSet ==
    /\ cacheOps < MaxCacheOps
    /\ \E k \in CacheKeys, v \in CacheValues, ttl \in CacheTtls :
         /\ cache' = setCache(cache, k, v, ttl, now)
         /\ written' = MapSet(written, k,
                [value |-> v, at |-> now,
                 ttl |-> IF ttl = None THEN DEFAULT_TTL_MS ELSE ttl[1],
                 over |-> IF k \in DOMAIN written THEN Some(written[k].value) ELSE None])
         /\ dead' = dead \ {k}
         /\ lastOp' = [NoOp EXCEPT !.op = "set", !.key = k, !.at = now]
    /\ cacheOps' = cacheOps + 1

\* getCached(k)
CacheGet ==
    /\ cacheOps < MaxCacheOps
    /\ \E k \in CacheKeys :
         LET g == getCached(cache, k, now)
             exp == k \in DOMAIN written /\ now > written[k].at + written[k].ttl
         IN  /\ cache' = g.cache
             /\ lastOp' = [op |-> "get", key |-> k, value |-> g.value, at |-> now,
                           expired |-> exp, wasDead |-> k \in dead]
             /\ dead' = IF exp THEN dead \cup {k} ELSE dead
    /\ cacheOps' = cacheOps + 1
    /\ UNCHANGED written

\* clearCache()
CacheClear ==
    /\ cacheOps < MaxCacheOps
    /\ cache' = clearCache(cache)
    /\ written' = EmptyMap
    /\ lastOp' = [NoOp EXCEPT !.op = "clear", !.at = now]
    /\ cacheOps' = cacheOps + 1
    /\ UNCHANGED dead

(* ------------------------ lib/occurrence-date.ts ----------------------- *)
\* s.slice(a, b) of a string
Slice(s, a, b) == SubSeq(s, a + 1, Min(b, Len(s)))

\* /^\d{4}/.test(ed)
LeadingYear(ed) == Len(ed) >= 4 /\ \A i \in 1..4 : ed[i] \in Digits

\* /^\d{4}-\d{2}/.test(ed)
LeadingYearMonth(ed) ==
    /\ Len(ed) >= 7
    /\ \A i \in 1..4 : ed[i] \in Digits
    /\ ed[5] = "-"
    /\ ed[6] \in Digits
    /\ ed[7] \in Digits

\* occurrenceYear(occ): a year of the record is a finite number or absent
occurrenceYear(occ) ==
    IF occ.year # None THEN occ.year
    ELSE IF occ.eventDate # None /\ LeadingYear(occ.eventDate[1])
         THEN Some(ParseInt10(Slice(occ.eventDate[1], 0, 4)))
         ELSE None

\* occurrenceMonth that reads a date without a month as January
occurrenceMonthJanuary(occ) ==
    IF occ.month # None /\ occ.month[1] >= 1 /\ occ.month[1] <= 12 THEN occ.month
    ELSE IF occ.eventDate # None /\ LeadingYearMonth(occ.eventDate[1])
         THEN LET m == ParseInt10(Slice(occ.eventDate[1], 5, 7))
              IN  IF m >= 1 /\ m <= 12 THEN Some(m) ELSE None
         ELSE IF occ.eventDate # None /\ LeadingYear(occ.eventDate[1]) THEN Some(1)
              ELSE None

\* occurrenceMonth(occ)
occurrenceMonth(occ) ==
    IF occ.month # None /\ occ.month[1] >= 1 /\ occ.month[1] <= 12 THEN occ.month
    ELSE IF /\ occ.eventDate # None
            /\ Len(occ.eventDate[1]) >= 7
            /\ LeadingYearMonth(occ.eventDate[1])
         THEN LET m == ParseInt10(Slice(occ.eventDate[1], 5, 7))
              IN  IF m >= 1 /\ m <= 12 THEN Some(m) ELSE None
         ELSE None

(* ------------------- GlobeViewer: displayedOccurrences ------------------ *)
\* displayedOccurrences that keeps a record without a month under a month filter
displayedOccurrencesKeepsUndated(occs, imported, timeFilterYear, timeFilterMonth) ==
    LET combined == occs \o imported
        Keep(o) == /\ occurrenceYear(o) = timeFilterYear
                   /\ \/ timeFilterMonth = None
                      \/ occurrenceMonth(o) = None
                      \/ occurrenceMonth(o) = timeFilterMonth
    IN  IF timeFilterYear = None THEN combined ELSE SelectSeq(combined, Keep)

\* the useMemo of displayedOccurrences, for the state occurrences and the props
\* importedOccurrences, timeFilterYear and timeFilterMonth
displayedOccurrences(occs, imported, timeFilterYear, timeFilterMonth) ==
    LET combined == occs \o imported
        Keep(o) == /\ occurrenceYear(o) = timeFilterYear
                   /\ timeFilterMonth = None \/ occurrenceMonth(o) = timeFilterMonth
    IN  IF timeFilterYear = None THEN combined ELSE SelectSeq(combined, Keep)

(* ------------- the date functions and the display, driven directly ------ *)
\* the year and month fields a record can carry; GBIF months are 1..12, and a file can
\* hold any number
StructuredYears == {None, Some(1999), Some(2020)}
StructuredMonths == {None, Some(0), Some(3), Some(12), Some(13)}
\* eventDate strings: a year, a year and a month, a full date, months out of range, and
\* strings that do not begin with YYYY or YYYY-MM
EventDates ==
    { None, Some(<< "2", "0", "2", "0" >>), Some(<< "2", "0", "2", "1", "-", "0", "5" >>), Some(<< "2", "0", "2", "0", "-", "0", "3", "-", "1", "5" >>), Some(<< "2", "0", "2", "1", "-", "1", "3", "-", "0", "1" >>), Some(<< "2", "0", "2", "0", "-", "0", "0" >>),
      Some(<< "2", "0", "2", "0", "0", "3", "1", "5" >>), Some(<< "2", "0", "2", "0", "-", "3", "-", "1", "5" >>), Some(<< "M", "a", "y", " ", "2", "0", "2", "0" >>), Some(<< "2", "0", "2" >>), Some(<< "2", "0", "2", "0", "/", "0", "3" >>) }
DatedOccurrences ==
    [key : {1}, year : StructuredYears, month : StructuredMonths, eventDate : EventDates]

\* occurrenceYear(occ)
CallOccurrenceYear ==
    /\ \E occ \in DatedOccurrences :
         /\ input' = [fn |-> "occurrenceYear", occ |-> occ]
         /\ output' = occurrenceYear(occ)
    /\ UNCHANGED << programVars, homeVars, panelVars >>

\* occurrenceMonth(occ)
CallOccurrenceMonth ==
    /\ \E occ \in DatedOccurrences :
         /\ input' = [fn |-> "occurrenceMonth", occ |-> occ]
         /\ output' = occurrenceMonth(occ)
    /\ UNCHANGED << programVars, homeVars, panelVars >>

\* records the API returns: with year and month, with a year-only date, with a date only
ApiRecords ==
    { [key |-> 1, year |-> Some(2020), month |-> Some(3), eventDate |-> Some(<< "2", "0", "2", "0", "-", "0", "3", "-", "1", "5" >>)],
      [key |-> 2, year |-> Some(2020), month |-> None, eventDate |-> Some(<< "2", "0", "2", "0" >>)],
      [key |-> 3, year |-> None, month |-> None, eventDate |-> Some(<< "2", "0", "2", "1", "-", "0", "5" >>)] }
\* records rowToOccurrence makes of a file: negative keys, a year, never a month
ImportedRecords ==
    { [key |-> -1, year |-> Some(2021), month |-> None, eventDate |-> Some(<< "2", "0", "2", "1", "-", "0", "5", "-", "0", "7" >>)],
      [key |-> -2, year |-> Some(2020), month |-> None, eventDate |-> None] }
\* the lists of up to MaxRecords different records
ListsOf(records) ==
    UNION { { l \in [1..n -> records] : \A i, j \in 1..n : l[i] = l[j] => i = j }
            : n \in 0..MaxRecords }
TimeFilterYears == {None, Some(2020), Some(2021)}
TimeFilterMonths == {None, Some(3), Some(4), Some(5)}

\* a render of GlobeViewer with these occurrences and props
CallDisplayedOccurrences ==
    /\ \E occs \in ListsOf(ApiRecords), imported \in ListsOf(ImportedRecords),
          year \in TimeFilterYears, month \in TimeFilterMonths :
         /\ input' = [fn |-> "displayedOccurrences", occurrences |-> occs,
                      importedOccurrences |-> imported, timeFilterYear |-> year,
                      timeFilterMonth |-> month]
         /\ output' = displayedOccurrences(occs, imported, year, month)
    /\ UNCHANGED << programVars, homeVars, panelVars >>

(* ------------------ app/page.tsx: the export serializers ---------------- *)
\* o[k] of an object: its property of that name, undefined when it has none
Get(o, k) ==
    IF \E i \in 1..Len(o) : o[i].k = k THEN o[CHOOSE i \in 1..Len(o) : o[i].k = k]
    ELSE Undef(k)

\* String(v) of a number or a string
StringOf(p) ==
    CASE p.t = "num" -> IF p.v[1] < 0 THEN << "-" >> \o NumberToString(0 - p.v[1])
                        ELSE NumberToString(p.v[1])
      [] p.t = "str" -> p.v

\* v != null && Number.isFinite(v), for the values a record can hold
IsFiniteNumber(p) == p.t = "num"

\* occurrencesToGeoJSON with the coordinates as [latitude, longitude]
occurrencesToGeoJSONLatLon(occs) ==
    LET Located(o) == /\ IsFiniteNumber(Get(o, << "d", "e", "c", "i", "m", "a", "l", "L", "a", "t", "i", "t", "u", "d", "e" >>))
                      /\ IsFiniteNumber(Get(o, << "d", "e", "c", "i", "m", "a", "l", "L", "o", "n", "g", "i", "t", "u", "d", "e" >>))
        located == SelectSeq(occs, Located)
    IN  [type |-> "FeatureCollection",
         features |->
           [i \in 1..Len(located) |->
              [type |-> "Feature",
               geometry |-> [type |-> "Point",
                             coordinates |-> << Get(located[i], << "d", "e", "c", "i", "m", "a", "l", "L", "a", "t", "i", "t", "u", "d", "e" >>).v[1],
                                                Get(located[i], << "d", "e", "c", "i", "m", "a", "l", "L", "o", "n", "g", "i", "t", "u", "d", "e" >>).v[1] >>],
               properties |-> located[i]]]]

\* occurrencesToGeoJSON(occurrences): the feature collection that is stringified
occurrencesToGeoJSON(occs) ==
    LET Located(o) == /\ IsFiniteNumber(Get(o, << "d", "e", "c", "i", "m", "a", "l", "L", "a", "t", "i", "t", "u", "d", "e" >>))
                      /\ IsFiniteNumber(Get(o, << "d", "e", "c", "i", "m", "a", "l", "L", "o", "n", "g", "i", "t", "u", "d", "e" >>))
        located == SelectSeq(occs, Located)
    IN  [type |-> "FeatureCollection",
         features |->
           [i \in 1..Len(located) |->
              [type |-> "Feature",
               geometry |-> [type |-> "Point",
                             coordinates |-> << Get(located[i], << "d", "e", "c", "i", "m", "a", "l", "L", "o", "n", "g", "i", "t", "u", "d", "e" >>).v[1],
                                                Get(located[i], << "d", "e", "c", "i", "m", "a", "l", "L", "a", "t", "i", "t", "u", "d", "e" >>).v[1] >>],
               properties |-> located[i]]]]

\* the columns of the CSV export that come first, in this order
preferredOrder ==
    << << "k", "e", "y" >>, << "s", "c", "i", "e", "n", "t", "i", "f", "i", "c", "N", "a", "m", "e" >>, << "v", "e", "r", "n", "a", "c", "u", "l", "a", "r", "N", "a", "m", "e" >>, << "d", "e", "c", "i", "m", "a", "l", "L", "a", "t", "i", "t", "u", "d", "e" >>,
       << "d", "e", "c", "i", "m", "a", "l", "L", "o", "n", "g", "i", "t", "u", "d", "e" >>, << "y", "e", "a", "r" >>, << "m", "o", "n", "t", "h" >>, << "d", "a", "y" >>, << "e", "v", "e", "n", "t", "D", "a", "t", "e" >>, << "l", "o", "c", "a", "l", "i", "t", "y" >>,
       << "c", "o", "u", "n", "t", "r", "y", "C", "o", "d", "e" >>, << "i", "u", "c", "n", "R", "e", "d", "L", "i", "s", "t", "C", "a", "t", "e", "g", "o", "r", "y" >>, << "b", "a", "s", "i", "s", "O", "f", "R", "e", "c", "o", "r", "d" >>, << "d", "a", "t", "a", "s", "e", "t", "K", "e", "y" >>,
       << "d", "a", "t", "a", "s", "e", "t", "N", "a", "m", "e" >>, << "o", "c", "c", "u", "r", "r", "e", "n", "c", "e", "I", "D" >>, << "i", "n", "s", "t", "i", "t", "u", "t", "i", "o", "n", "C", "o", "d", "e" >>, << "r", "e", "c", "o", "r", "d", "e", "d", "B", "y" >> >>

\* the keys of the records in the order in which the Set allKeys first gets them
RECURSIVE AllKeys(_)
AllKeys(occs) ==
    IF occs = << >> THEN << >>
    ELSE LET before == AllKeys(SubSeq(occs, 1, Len(occs) - 1))
             New(k) == \A i \in 1..Len(before) : before[i] # k
         IN  before \o SelectSeq(ObjectKeys(occs[Len(occs)]), New)

\* s.replace(/"/g, '""')
RECURSIVE DoubleQuotes(_)
DoubleQuotes(s) ==
    IF s = << >> THEN << >>
    ELSE (IF s[1] = "\"" THEN << "\"", "\"" >> ELSE << s[1] >>) \o DoubleQuotes(Tail(s))

\* escape(v) of occurrencesToCSV
EscapeCsv(p) ==
    IF p.t = "undef" THEN << >>
    ELSE IF \E i \in 1..Len(StringOf(p)) : StringOf(p)[i] = ","
         THEN Quote(DoubleQuotes(StringOf(p)))
         ELSE StringOf(p)

\* occurrencesToCSV(occurrences)
occurrencesToCSV(occs) ==
    LET allKeys == AllKeys(occs)
        InAll(k) == \E i \in 1..Len(allKeys) : allKeys[i] = k
        Extra(k) == \A i \in 1..Len(preferredOrder) : preferredOrder[i] # k
        headers == SelectSeq(preferredOrder, InAll) \o Sort(SelectSeq(allKeys, Extra))
        Row(o) == Join([j \in 1..Len(headers) |-> EscapeCsv(Get(o, headers[j]))], << "," >>)
        rows == [i \in 1..Len(occs) |-> Row(occs[i])]
    IN  Join(<< Join(headers, << "," >>) >> \o rows, << "\n" >>)

\* the records that are exported: from the API, where a field that is absent is no
\* property, and from an import, where it is a property that is undefined
ExportRecords ==
    { << Num(<< "k", "e", "y" >>, 1) >> \o name \o lat \o lon :
        name \in { << >>, << Str(<< "s", "c", "i", "e", "n", "t", "i", "f", "i", "c", "N", "a", "m", "e" >>, << "P", "a", "r", "u", "s", " ", "m", "a", "j", "o", "r", ",", " ", "L" >>) >> },
        lat \in { << >>, << Undef(<< "d", "e", "c", "i", "m", "a", "l", "L", "a", "t", "i", "t", "u", "d", "e" >>) >>, << Num(<< "d", "e", "c", "i", "m", "a", "l", "L", "a", "t", "i", "t", "u", "d", "e" >>, 59) >> },
        lon \in { << >>, << Num(<< "d", "e", "c", "i", "m", "a", "l", "L", "o", "n", "g", "i", "t", "u", "d", "e" >>, -18) >> } }
ExportLists == UNION { [1..n -> ExportRecords] : n \in 0..MaxRecords }

\* occurrencesToGeoJSON(occurrences)
CallOccurrencesToGeoJSON ==
    /\ \E occs \in ExportLists :
         /\ input' = [fn |-> "occurrencesToGeoJSON", occurrences |-> occs]
         /\ output' = occurrencesToGeoJSON(occs)
    /\ UNCHANGED << programVars, homeVars, panelVars >>

\* occurrencesToCSV(occurrences)
CallOccurrencesToCSV ==
    /\ \E occs \in ExportLists :
         /\ input' = [fn |-> "occurrencesToCSV", occurrences |-> occs]
         /\ output' = occurrencesToCSV(occs)
    /\ UNCHANGED << programVars, homeVars, panelVars >>

(* ------------------------ lib/import-occurrences.ts --------------------- *)
(* A value read from a file is [t, n, s]: t is "num" (n the number), "str" (s  *)
(* the characters), "null", "undef" or "other" (a boolean, an array, an       *)
(* object).                                                                   *)
NumV(n) == [t |-> "num", n |-> n, s |-> << >>]
StrV(chars) == [t |-> "str", n |-> 0, s |-> chars]
NullV == [t |-> "null", n |-> 0, s |-> << >>]
UndefV == [t |-> "undef", n |-> 0, s |-> << >>]

WhiteSpace == {" ", "\t", "\r", "\n"}
\* s.trim()
RECURSIVE Trim(_)
Trim(s) ==
    IF s = << >> THEN s
    ELSE IF s[1] \in WhiteSpace THEN Trim(Tail(s))
    ELSE IF s[Len(s)] \in WhiteSpace THEN Trim(SubSeq(s, 1, Len(s) - 1))
    ELSE s

\* s.replace(/,/g, '')
WithoutCommas(s) == SelectSeq(s, LAMBDA c : c # ",")
\* s.replace(/\s+/g, '')
WithoutSpaces(s) == SelectSeq(s, LAMBDA c : c \notin WhiteSpace)
\* s.toLowerCase(), for the letters of CodeUnits
ToLowerCase(s) ==
    [i \in 1..Len(s) |->
       IF \E n \in 11..36 : CodeUnits[n] = s[i]
       THEN CodeUnits[(CHOOSE n \in 11..36 : CodeUnits[n] = s[i]) + 26]
       ELSE s[i]]

\* Number(s) of a trimmed string, for whole numbers: the empty string is 0, an optional
\* sign and digits are that number, anything else is NaN (absent here)
ToNumber(s) ==
    IF s = << >> THEN Some(0)
    ELSE IF IsDigitString(s) THEN Some(ParseInt10(s))
    ELSE IF s[1] = "-" /\ IsDigitString(Tail(s)) THEN Some(0 - ParseInt10(Tail(s)))
    ELSE IF s[1] = "+" /\ IsDigitString(Tail(s)) THEN Some(ParseInt10(Tail(s)))
    ELSE None

\* parseNum(v): the number, or absent for undefined
parseNum(val) ==
    CASE val.t = "undef" \/ val.t = "null" -> None
      [] val.t = "str" -> IF val.s = << >> THEN None ELSE ToNumber(Trim(WithoutCommas(val.s)))
      [] val.t = "num" -> Some(val.n)
      [] OTHER -> None

\* parseInt(s, 10): the leading digits of the string, NaN (absent here) without any
RECURSIVE LeadingDigits(_)
LeadingDigits(s) ==
    IF s = << >> \/ s[1] \notin Digits THEN << >> ELSE << s[1] >> \o LeadingDigits(Tail(s))
ParseIntPrefix(s) ==
    IF LeadingDigits(Trim(s)) = << >> THEN None ELSE Some(ParseInt10(LeadingDigits(Trim(s))))

\* parseYear(v)
parseYear(val) ==
    LET n == parseNum(val)
    IN  IF n # None /\ n[1] >= 1000 /\ n[1] <= 9999 THEN n
        ELSE IF val.t = "str" /\ Len(val.s) >= 4 THEN ParseIntPrefix(Slice(val.s, 0, 4))
        ELSE None

\* row[k] of a row: the value last assigned to the key, undefined without one
RowGet(row, k) ==
    IF \E i \in 1..Len(row) : row[i].k = k
    THEN row[CHOOSE i \in 1..Len(row) : row[i].k = k /\ \A j \in (i + 1)..Len(row) : row[j].k # k].val
    ELSE UndefV

\* a ?? b
Nullish(a, b) == IF a.t = "undef" \/ a.t = "null" THEN b ELSE a

\* rowToOccurrence(row, syntheticKey): the fields of the record that are used here; a row
\* has no month
rowToOccurrence(row, syntheticKey) ==
    LET get(k) == Nullish(RowGet(row, k), RowGet(row, ToLowerCase(k)))
        getStr(k) == IF get(k).t = "str" /\ Trim(get(k).s) # << >> THEN Some(Trim(get(k).s))
                     ELSE None
        ed == get(<< "e", "v", "e", "n", "t", "D", "a", "t", "e" >>)
        edText == IF ed.t = "num" THEN NumberToString(ed.n) ELSE ed.s
        edTruthy == (ed.t = "str" /\ ed.s # << >>) \/ (ed.t = "num" /\ ed.n # 0)
        year == IF parseYear(get(<< "y", "e", "a", "r" >>)) # None THEN parseYear(get(<< "y", "e", "a", "r" >>))
                ELSE IF edTruthy THEN parseYear(StrV(Slice(edText, 0, 4)))
                ELSE None
    IN  [key |-> syntheticKey,
         decimalLatitude |-> parseNum(get(<< "d", "e", "c", "i", "m", "a", "l", "L", "a", "t", "i", "t", "u", "d", "e" >>)),
         decimalLongitude |-> parseNum(get(<< "d", "e", "c", "i", "m", "a", "l", "L", "o", "n", "g", "i", "t", "u", "d", "e" >>)),
         year |-> year,
         month |-> None,
         eventDate |-> getStr(<< "e", "v", "e", "n", "t", "D", "a", "t", "e" >>)]

\* ValidCoordinates without the test of the ranges
ValidCoordinatesAnyRange(lat, lon) == lat # None /\ lon # None

\* lat != null && lon != null && lat >= -90 && lat <= 90 && lon >= -180 && lon <= 180
ValidCoordinates(lat, lon) ==
    /\ lat # None
    /\ lon # None
    /\ lat[1] >= -90
    /\ lat[1] <= 90
    /\ lon[1] >= -180
    /\ lon[1] <= 180

\* text.split(/\r?\n/)
RECURSIVE SplitLines(_)
SplitLines(text) ==
    IF \A i \in 1..Len(text) : text[i] # "\n" THEN << text >>
    ELSE LET n == CHOOSE i \in 1..Len(text) :
                    text[i] = "\n" /\ \A j \in 1..(i - 1) : text[j] # "\n"
             end == IF n > 1 /\ text[n - 1] = "\r" THEN n - 2 ELSE n - 1
         IN  << SubSeq(text, 1, end) >> \o SplitLines(SubSeq(text, n + 1, Len(text)))

\* parseCSVLine(line): the loop over the characters from position i on, with the fields
\* that are complete, the field being read and whether it is inside quotes
RECURSIVE CsvLineFrom(_, _, _, _, _)
CsvLineFrom(line, i, out, cur, inQuotes) ==
    IF i > Len(line) THEN out \o << cur >>
    ELSE IF line[i] = "\"" THEN CsvLineFrom(line, i + 1, out, cur, ~inQuotes)
    ELSE IF inQuotes THEN CsvLineFrom(line, i + 1, out, cur \o << line[i] >>, inQuotes)
    ELSE IF line[i] \in {",", ";", "\t"}
         THEN CsvLineFrom(line, i + 1, out \o << cur >>, << >>, inQuotes)
    ELSE CsvLineFrom(line, i + 1, out, cur \o << line[i] >>, inQuotes)
parseCSVLine(line) == CsvLineFrom(line, 1, << >>, << >>, FALSE)

\* the entries of CSV_HEADER_ALIASES for the coordinates and the event date
CSV_HEADER_ALIASES ==
    << << << "d", "e", "c", "i", "m", "a", "l", " ", "l", "a", "t", "i", "t", "u", "d", "e" >>, << "d", "e", "c", "i", "m", "a", "l", "L", "a", "t", "i", "t", "u", "d", "e" >> >>,
       << << "d", "e", "c", "i", "m", "a", "l", " ", "l", "o", "n", "g", "i", "t", "u", "d", "e" >>, << "d", "e", "c", "i", "m", "a", "l", "L", "o", "n", "g", "i", "t", "u", "d", "e" >> >>,
       << << "d", "e", "c", "i", "m", "a", "l", "l", "a", "t", "i", "t", "u", "d", "e" >>, << "d", "e", "c", "i", "m", "a", "l", "L", "a", "t", "i", "t", "u", "d", "e" >> >>,
       << << "d", "e", "c", "i", "m", "a", "l", "l", "o", "n", "g", "i", "t", "u", "d", "e" >>, << "d", "e", "c", "i", "m", "a", "l", "L", "o", "n", "g", "i", "t", "u", "d", "e" >> >>,
       << << "e", "v", "e", "n", "t", " ", "d", "a", "t", "e" >>, << "e", "v", "e", "n", "t", "D", "a", "t", "e" >> >>,
       << << "e", "v", "e", "n", "t", "d", "a", "t", "e" >>, << "e", "v", "e", "n", "t", "D", "a", "t", "e" >> >> >>

\* normalizeHeader(h), for headers whose words are separated by one space
normalizeHeader(h) ==
    LET lower == ToLowerCase(Trim(h))
    IN  IF \E i \in 1..Len(CSV_HEADER_ALIASES) : CSV_HEADER_ALIASES[i][1] = lower
        THEN CSV_HEADER_ALIASES[CHOOSE i \in 1..Len(CSV_HEADER_ALIASES) :
                                  CSV_HEADER_ALIASES[i][1] = lower][2]
        ELSE WithoutSpaces(Trim(h))

\* the row object of a data line: row[h] = values[j]?.trim() for the headers that are not
\* empty
CsvRow(headers, values) ==
    LET Named(j) == headers[j] # << >>
        named == SelectSeq([j \in 1..Len(headers) |-> j], Named)
    IN  [n \in 1..Len(named) |->
           [k |-> headers[named[n]],
            val |-> IF named[n] <= Len(values) THEN StrV(Trim(values[named[n]]))
                    ELSE UndefV]]

\* NextSyntheticKey that counts the rejected rows too
NextSyntheticKeyOfLine(syntheticKey, accepted) == syntheticKey - 1

\* syntheticKey -= 1, inside the branch of an accepted row
NextSyntheticKey(syntheticKey, accepted) ==
    IF accepted THEN syntheticKey - 1 ELSE syntheticKey

\* the loop of parseOccurrencesCSV over the data lines from line i on
RECURSIVE CsvRowsFrom(_, _, _, _, _)
CsvRowsFrom(lines, headers, i, results, syntheticKey) ==
    IF i > Len(lines) THEN results
    ELSE LET row == CsvRow(headers, parseCSVLine(lines[i]))
             lat == parseNum(RowGet(row, << "d", "e", "c", "i", "m", "a", "l", "L", "a", "t", "i", "t", "u", "d", "e" >>))
             lon == parseNum(RowGet(row, << "d", "e", "c", "i", "m", "a", "l", "L", "o", "n", "g", "i", "t", "u", "d", "e" >>))
             accepted == ValidCoordinates(lat, lon)
         IN  CsvRowsFrom(lines, headers, i + 1,
                         IF accepted THEN results \o << rowToOccurrence(row, syntheticKey) >>
                         ELSE results,
                         NextSyntheticKey(syntheticKey, accepted))

\* parseOccurrencesCSV(text)
parseOccurrencesCSV(text) ==
    LET lines == SelectSeq(SplitLines(text), LAMBDA l : Trim(l) # << >>)
        headerValues == parseCSVLine(lines[1])
        headers == [j \in 1..Len(headerValues) |-> normalizeHeader(headerValues[j])]
    IN  IF Len(lines) < 2 THEN << >>
        ELSE CsvRowsFrom(lines, headers, 2, << >>, -1)

(* What JSON.parse makes of a text is [kind, items]: "invalid" when it throws,   *)
(* "array" for an array, "results" for an object whose results is an array,   *)
(* "object" for any other value.  An item is [t, row]: "obj" with its         *)
(* properties [k, val], or "null".                                             *)
Obj(row) == [t |-> "obj", row |-> row]
NullItem == [t |-> "null", row |-> << >>]

\* the loop of parseOccurrencesJSON over the items from item i on
RECURSIVE JsonItemsFrom(_, _, _, _)
JsonItemsFrom(items, i, results, syntheticKey) ==
    IF i > Len(items) THEN results
    ELSE IF items[i].t # "obj" THEN JsonItemsFrom(items, i + 1, results, syntheticKey)
    ELSE LET row == items[i].row
             lat == parseNum(Nullish(RowGet(row, << "d", "e", "c", "i", "m", "a", "l", "L", "a", "t", "i", "t", "u", "d", "e" >>),
                                     RowGet(row, << "d", "e", "c", "i", "m", "a", "l", "l", "a", "t", "i", "t", "u", "d", "e" >>)))
             lon == parseNum(Nullish(RowGet(row, << "d", "e", "c", "i", "m", "a", "l", "L", "o", "n", "g", "i", "t", "u", "d", "e" >>),
                                     RowGet(row, << "d", "e", "c", "i", "m", "a", "l", "l", "o", "n", "g", "i", "t", "u", "d", "e" >>)))
             existingKey == IF RowGet(row, << "k", "e", "y" >>).t = "num" THEN Some(RowGet(row, << "k", "e", "y" >>).n)
                            ELSE None
             key == IF existingKey # None /\ existingKey[1] > 0 THEN existingKey[1]
                    ELSE syntheticKey
         IN  IF ValidCoordinates(lat, lon)
             THEN JsonItemsFrom(items, i + 1, results \o << rowToOccurrence(row, key) >>,
                                IF key < 0 THEN syntheticKey - 1 ELSE syntheticKey)
             ELSE JsonItemsFrom(items, i + 1, results, syntheticKey)

\* parseOccurrencesJSON(text), for what JSON.parse makes of the text
parseOccurrencesJSON(data) ==
    IF data.kind \in {"array", "results"} THEN JsonItemsFrom(data.items, 1, << >>, -1)
    ELSE << >>

(* ----------------- the import parsers, driven directly ------------------ *)
\* header lines: the names as GBIF writes them, and with an alias and other separators
CsvHeaderLines ==
    { << "d", "e", "c", "i", "m", "a", "l", "L", "a", "t", "i", "t", "u", "d", "e", ",", "d", "e", "c", "i", "m", "a", "l", "L", "o", "n", "g", "i", "t", "u", "d", "e", ",", "k", "e", "y" >>, << "D", "e", "c", "i", "m", "a", "l", " ", "L", "a", "t", "i", "t", "u", "d", "e", ";", "d", "e", "c", "i", "m", "a", "l", "l", "o", "n", "g", "i", "t", "u", "d", "e", "\t", "k", "e", "y" >> }
\* data lines: a row with coordinates and a key, a row without latitude, a row with a
\* latitude out of range, a row with a quoted field and no key
CsvDataLines ==
    { << "5", "9", ",", "1", "8", ",", "7" >>, << ",", "1", "8", ",", "7" >>, << "9", "1", ",", "1", "8", ",", "7" >>, << "\"", "-", "1", ",", "0", "\"", ",", "-", "1", "8", "0" >> }
LinesOf(pool) == UNION { [1..n -> pool] : n \in 0..MaxRows }
CsvTexts ==
    { Join(<< h >> \o rows, << "\n" >>) : h \in CsvHeaderLines, rows \in LinesOf(CsvDataLines) }

\* items of a JSON array: an object with coordinates and no key, one with a positive key,
\* one with a key and coordinates that are strings, one without latitude, and null
JsonItems ==
    { Obj(<< [k |-> << "d", "e", "c", "i", "m", "a", "l", "L", "a", "t", "i", "t", "u", "d", "e" >>, val |-> NumV(59)],
             [k |-> << "d", "e", "c", "i", "m", "a", "l", "L", "o", "n", "g", "i", "t", "u", "d", "e" >>, val |-> NumV(18)] >>),
      Obj(<< [k |-> << "k", "e", "y" >>, val |-> NumV(7)],
             [k |-> << "d", "e", "c", "i", "m", "a", "l", "L", "a", "t", "i", "t", "u", "d", "e" >>, val |-> NumV(59)],
             [k |-> << "d", "e", "c", "i", "m", "a", "l", "L", "o", "n", "g", "i", "t", "u", "d", "e" >>, val |-> NumV(-18)] >>),
      Obj(<< [k |-> << "k", "e", "y" >>, val |-> StrV(<< "7" >>)],
             [k |-> << "d", "e", "c", "i", "m", "a", "l", "l", "a", "t", "i", "t", "u", "d", "e" >>, val |-> StrV(<< "5", "9" >>)],
             [k |-> << "d", "e", "c", "i", "m", "a", "l", "l", "o", "n", "g", "i", "t", "u", "d", "e" >>, val |-> StrV(<< "1", "8" >>)] >>),
      Obj(<< [k |-> << "k", "e", "y" >>, val |-> NumV(7)],
             [k |-> << "d", "e", "c", "i", "m", "a", "l", "L", "o", "n", "g", "i", "t", "u", "d", "e" >>, val |-> NumV(18)] >>),
      NullItem }
JsonDatas ==
    { [kind |-> kind, items |-> items] : kind \in {"array", "results"},
                                         items \in LinesOf(JsonItems) }
      \cup { [kind |-> kind, items |-> << >>] : kind \in {"invalid", "object"} }

\* parseOccurrencesCSV(text)
CsvParsed == [text \in CsvTexts |-> parseOccurrencesCSV(text)]
CallParseOccurrencesCSV ==
    /\ \E text \in CsvTexts :
         /\ input' = [fn |-> "parseOccurrencesCSV", text |-> text]
         /\ output' = CsvParsed[text]
    /\ UNCHANGED << programVars, homeVars, panelVars >>

\* parseOccurrencesJSON(text)
JsonParsed == [data \in JsonDatas |-> parseOccurrencesJSON(data)]
CallParseOccurrencesJSON ==
    /\ \E data \in JsonDatas :
         /\ input' = [fn |-> "parseOccurrencesJSON", data |-> data]
         /\ output' = JsonParsed[data]
    /\ UNCHANGED << programVars, homeVars, panelVars >>

\* parseOccurrencesText(text, filename), for a file that is [ext, readable, text, data]:
\* ext the extension of its name, data what JSON.parse makes of its text.  For a name
\* that ends in neither .json, .csv nor .txt, parseOccurrencesJSON is tried; it throws
\* nothing, so parseOccurrencesCSV is not called
parseOccurrencesText(file) ==
    IF file.ext = "json" THEN parseOccurrencesJSON(file.data)
    ELSE IF file.ext \in {"csv", "txt"} THEN parseOccurrencesCSV(file.text)
    ELSE parseOccurrencesJSON(file.data)

\* parseOccurrencesFile(file) for a file that is no zip: how its promise settles
parseOccurrencesFile(file) ==
    IF file.readable THEN [kind |-> "resolved", value |-> parseOccurrencesText(file)]
    ELSE [kind |-> "rejected", value |-> << >>]

(* --------------- app/page.tsx: Home, display and exports --------------- *)
\* the useMemo of allOccurrences
allOccurrences(occs, imported) == occs \o imported

\* the years the timeline has a button for: yearCounts of allOccurrences
TimelineYears ==
    LET all == allOccurrences(reported, importedOccurrences)
    IN  {occurrenceYear(all[i]) : i \in DOMAIN all} \ {None}

\* a fetch of GlobeViewer resolves with these records: setOccurrences(results) and
\* onOccurrencesChange(results), which is Home's setOccurrences
ResultsArrive ==
    /\ \E results \in ListsOf(ApiRecords) : FetchResolved(results)
    /\ UNCHANGED << loading, homeVars, panelVars, pureVars >>

\* the files the user imports: a JSON array of a record without key; one of a record
\* with the key 1; a CSV text with a valid and an invalid row; a CSV text without a valid
\* row; a text that is neither JSON nor a table; a CSV text in a file that is not named
\* .csv or .txt; and a file the FileReader fails to read
ImportFiles ==
    { [ext |-> "json", readable |-> TRUE, text |-> << >>,
       data |-> [kind |-> "array",
                 items |-> << Obj(<< [k |-> << "d", "e", "c", "i", "m", "a", "l", "L", "a", "t", "i", "t", "u", "d", "e" >>, val |-> NumV(59)],
                                     [k |-> << "d", "e", "c", "i", "m", "a", "l", "L", "o", "n", "g", "i", "t", "u", "d", "e" >>, val |-> NumV(18)],
                                     [k |-> << "e", "v", "e", "n", "t", "D", "a", "t", "e" >>, val |-> StrV(<< "2", "0", "2", "1", "-", "0", "5", "-", "0", "7" >>)] >>) >>]],
      [ext |-> "json", readable |-> TRUE, text |-> << >>,
       data |-> [kind |-> "array",
                 items |-> << Obj(<< [k |-> << "k", "e", "y" >>, val |-> NumV(1)],
                                     [k |-> << "d", "e", "c", "i", "m", "a", "l", "L", "a", "t", "i", "t", "u", "d", "e" >>, val |-> NumV(59)],
                                     [k |-> << "d", "e", "c", "i", "m", "a", "l", "L", "o", "n", "g", "i", "t", "u", "d", "e" >>, val |-> NumV(18)],
                                     [k |-> << "y", "e", "a", "r" >>, val |-> NumV(2020)] >>) >>]],
      [ext |-> "csv", readable |-> TRUE,
       text |-> << "d", "e", "c", "i", "m", "a", "l", "L", "a", "t", "i", "t", "u", "d", "e", ",", "d", "e", "c", "i", "m", "a", "l", "L", "o", "n", "g", "i", "t", "u", "d", "e", ",", "y", "e", "a", "r", "\n", "5", "9", ",", "1", "8", ",", "2", "0", "2", "0", "\n", ",", "1", "8", ",", "2", "0", "2", "1" >>,
       data |-> [kind |-> "invalid", items |-> << >>]],
      [ext |-> "csv", readable |-> TRUE,
       text |-> << "d", "e", "c", "i", "m", "a", "l", "L", "a", "t", "i", "t", "u", "d", "e", ",", "d", "e", "c", "i", "m", "a", "l", "L", "o", "n", "g", "i", "t", "u", "d", "e", "\n", ",", "1", "8" >>,
       data |-> [kind |-> "invalid", items |-> << >>]],
      [ext |-> "json", readable |-> TRUE, text |-> << "n", "o", "t", " ", "a", " ", "t", "a", "b", "l", "e" >>,
       data |-> [kind |-> "invalid", items |-> << >>]],
      [ext |-> "dat", readable |-> TRUE,
       text |-> << "d", "e", "c", "i", "m", "a", "l", "L", "a", "t", "i", "t", "u", "d", "e", ",", "d", "e", "c", "i", "m", "a", "l", "L", "o", "n", "g", "i", "t", "u", "d", "e", "\n", "5", "9", ",", "1", "8" >>,
       data |-> [kind |-> "invalid", items |-> << >>]],
      [ext |-> "csv", readable |-> FALSE, text |-> << >>,
       data |-> [kind |-> "invalid", items |-> << >>]] }

\* handleImportFile(file): the parsed records become the imported ones; when
\* parseOccurrencesFile rejects, window.alert tells the user.  ImportSettled is how
\* the promise of parseOccurrencesFile settles for each file
ImportSettled == [file \in ImportFiles |-> parseOccurrencesFile(file)]
handleImportFile ==
    /\ \E file \in ImportFiles :
         LET parsed == ImportSettled[file]
         IN  /\ input' = [fn |-> "handleImportFile", file |-> file]
             /\ IF parsed.kind = "resolved"
                THEN /\ importedOccurrences' = parsed.value
                     /\ alert' = None
                ELSE /\ importedOccurrences' = importedOccurrences
                     /\ alert' = Some("Could not parse file")
    /\ UNCHANGED << displayVars, selectedYear, selectedMonth, output >>

\* handleClearImport
handleClearImport ==
    /\ importedOccurrences' = << >>
    /\ UNCHANGED << displayVars, selectedYear, selectedMonth, alert, pureVars >>

\* the timeline, shown while it has a year: the button of all years, or that of a year
TimelineYear ==
    /\ TimelineYears # {}
    /\ \E year \in {None} \cup TimelineYears :
         /\ selectedYear' = year
         /\ TimeFilterRerender(year, None)
    /\ selectedMonth' = None
    /\ UNCHANGED << importedOccurrences, alert, pureVars >>

\* the month strip, shown while a year is selected: the button of a month selects it, or
\* deselects it when it is the selected one
TimelineMonth ==
    /\ TimelineYears # {}
    /\ selectedYear # None
    /\ \E month \in TimeFilterMonths \ {None} :
         LET next == IF selectedMonth = month THEN None ELSE month
         IN  /\ selectedMonth' = next
             /\ TimeFilterRerender(selectedYear, next)
    /\ UNCHANGED << importedOccurrences, selectedYear, alert, pureVars >>

\* the user changes the taxon selection: setFilters, the refetch effect of GlobeViewer,
\* and Home's effect that resets the timeline when the new filters have a taxon
SetTaxonFilters ==
    /\ ChangeFilters
    /\ filters' # filters
    /\ selectedYear' = IF hasTaxonFilter(filters') THEN None ELSE selectedYear
    /\ selectedMonth' = IF hasTaxonFilter(filters') THEN None ELSE selectedMonth
    /\ UNCHANGED << importedOccurrences, alert, pureVars >>

\* the fetch of run i resolves with records of the API: setOccurrences(results) and
\* onOccurrencesChange(results)
FetchDelivers ==
    /\ \E i \in DOMAIN inflight, results \in ListsOf(ApiRecords) :
         FetchSettles(i, [NoOutcome EXCEPT !.kind = "ok", !.results = results])
    /\ failed' = None
    /\ panned' = FALSE
    /\ UNCHANGED << filters, selectedRegionBounds, viewBounds, fetchTimeout, timers,
                    started, burst, homeVars, pureVars >>

ExportHandlers == {"handleExportGeoJSON", "handleExportCSV", "handleExportPDF"}

\* handleExportGeoJSON, handleExportCSV, handleExportPDF: the records handed to
\* occurrencesToGeoJSON, to occurrencesToCSV and to generateOccurrencePdf
handleExport ==
    /\ \E fn \in ExportHandlers : input' = [fn |-> fn]
    /\ output' = allOccurrences(reported, importedOccurrences)
    /\ UNCHANGED << displayVars, homeVars, panelVars >>

(* ----------------------------- lib/geometry.ts -------------------------- *)
\* `${n}` for a whole number n
NumberString(n) == IF n < 0 THEN << "-" >> \o NumberToString(0 - n) ELSE NumberToString(n)

\* the ring without its closing point
WktRingOpen(bounds) ==
    << << bounds.west, bounds.south >>, << bounds.west, bounds.north >>,
       << bounds.east, bounds.north >>, << bounds.east, bounds.south >> >>

\* const ring of boundsToWktPolygon
WktRing(bounds) ==
    << << bounds.west, bounds.south >>, << bounds.west, bounds.north >>,
       << bounds.east, bounds.north >>, << bounds.east, bounds.south >>,
       << bounds.west, bounds.south >> >>

\* boundsToWktPolygon(bounds)
boundsToWktPolygon(bounds) ==
    LET ring == WktRing(bounds)
    IN  << "P", "O", "L", "Y", "G", "O", "N", "(", "(" >>
        \o Join([i \in 1..Len(ring) |->
                   NumberString(ring[i][1]) \o << " " >> \o NumberString(ring[i][2])],
                << ",", " " >>)
        \o << ")", ")" >>

(* boundsToWktPolygon driven directly: bounds in whole degrees, the west edge on either
   side of the east edge and the south edge on either side of the north edge *)
Longitudes == {-180, -18, 10, 20}
Latitudes == {-90, 58, 62}
BoundsInputs ==
    [west : Longitudes, south : Latitudes, east : Longitudes, north : Latitudes]

CallBoundsToWktPolygon ==
    /\ \E bounds \in BoundsInputs :
         /\ input' = [fn |-> "boundsToWktPolygon", bounds |-> bounds]
         /\ output' = boundsToWktPolygon(bounds)
    /\ UNCHANGED << programVars, homeVars, panelVars >>

(* ------------- lib/gbif.ts: the query string of searchOccurrences ------- *)
\* encodeURIComponent(s) for letters, digits, the marks it leaves alone, the space and
\* the comma
Unreserved == {CodeUnits[i] : i \in 1..Len(CodeUnits)} \cup {"-", "_", ".", "!", "~", "*", "'", "(", ")"}
RECURSIVE encodeURIComponent(_)
encodeURIComponent(s) ==
    IF s = << >> THEN << >>
    ELSE (CASE s[1] \in Unreserved -> << s[1] >>
            [] s[1] = " " -> << "%", "2", "0" >>
            [] s[1] = "," -> << "%", "2", "C" >>)
         \o encodeURIComponent(Tail(s))

\* serializeOccurrenceParams(params) as the string it returns: the entries of params in
\* the order searchOccurrences assigns them, the geometry as its text
OccurrenceQuery(params) ==
    LET Part(k, val) == encodeURIComponent(k) \o << "=" >> \o encodeURIComponent(val)
        tk == << "t", "a", "x", "o", "n", "K", "e", "y" >>
    IN  Join(<< Part(<< "l", "i", "m", "i", "t" >>, NumberString(params.limit)),
                Part(<< "o", "f", "f", "s", "e", "t" >>, NumberString(params.offset)) >>
             \o (IF params.geometry = None THEN << >>
                 ELSE << Part(<< "g", "e", "o", "m", "e", "t", "r", "y" >>, params.geometry[1]) >>)
             \o (CASE params.taxonKey.form = "array" ->
                        [i \in 1..Len(params.taxonKey.v) |->
                           Part(tk, NumberString(params.taxonKey.v[i]))]
                   [] params.taxonKey.form = "number" ->
                        << Part(tk, NumberString(params.taxonKey.v[1])) >>
                   [] params.taxonKey.form = "undefined" -> << >>),
             << "&" >>)

(* the query of searchOccurrences driven directly: filters with and without a geometry,
   a single taxonKey that is absent, 0 or the key of a class, and up to two taxonKeys *)
QueryTaxonKeys == {0, 5, 212}
QueryFilters ==
    [geometry : {None, Some(boundsToWktPolygon([west |-> 10, south |-> 58,
                                                east |-> 20, north |-> 62]))},
     taxonKey : {None, Some(0), Some(212)},
     taxonKeys : UNION { [1..n -> QueryTaxonKeys] : n \in 0..2 }]
QueryLimits == {20, OCCURRENCE_LIMIT}
QueryOffsets == {0, OCCURRENCE_LIMIT}

\* the query string of searchOccurrences(filters)
CallSearchOccurrencesQuery ==
    /\ \E fs \in QueryFilters, limit \in QueryLimits, offset \in QueryOffsets :
         /\ input' = [fn |-> "searchOccurrences", filters |-> fs,
                      limit |-> limit, offset |-> offset]
         /\ output' = OccurrenceQuery(BuildParams(fs, limit, offset))
    /\ UNCHANGED << programVars, homeVars, panelVars >>

(* ------ lib/gbif.ts: suggestSpecies and searchSpeciesByVernacular ------- *)
SPECIES_CACHE_TTL_MS == 2 * 60 * 1000
SPECIES_LIMIT == 20

\* species: pc is where the call is suspended, fn, q and key are those of the latest call,
\* calls counts the calls; threw says that the latest call threw; requests, reads and writes
\* count the network requests, getCached and setCache of the latest call
NoSpeciesCall ==
    [pc |-> "idle", fn |-> "none", q |-> << >>, key |-> << >>, calls |-> 0,
     threw |-> FALSE, requests |-> 0, reads |-> 0, writes |-> 0]

\* QueryTooShort that only tests for the empty string
QueryEmpty(q) == q = << >>

\* !q || q.length < 2
QueryTooShort(q) == q = << >> \/ Len(q) < 2

\* the params object of the call and its cache key
SpeciesKey(fn, q, limit) ==
    IF fn = "suggestSpecies"
    THEN cacheKey(<< "s", "u", "g", "g", "e", "s", "t" >>, << Str(<< "q" >>, Trim(q)), Num(<< "l", "i", "m", "i", "t" >>, limit) >>)
    ELSE cacheKey(<< "s", "p", "e", "c", "i", "e", "s", "-", "s", "e", "a", "r", "c", "h", "-", "v", "e", "r", "n", "a", "c", "u", "l", "a", "r" >>,
                  << Str(<< "q" >>, Trim(q)), Str(<< "q", "F", "i", "e", "l", "d" >>, << "V", "E", "R", "N", "A", "C", "U", "L", "A", "R" >>),
                     Str(<< "s", "t", "a", "t", "u", "s" >>, << "A", "C", "C", "E", "P", "T", "E", "D" >>), Num(<< "l", "i", "m", "i", "t" >>, limit) >>)

SpeciesFunctions == {"suggestSpecies", "searchSpeciesByVernacular"}
\* queries: empty, of one character, of two characters with and without a space
SpeciesQueries == { << >>, << "P" >>, << " " >>, << "P", "a" >>, << "P", " " >>, << "Q", "u" >> }
\* what the service answers: the list of the keys of the species
SpeciesResults == { << >>, << "s1" >>, << "s1", "s2" >> }

\* suggestSpecies(q) or searchSpeciesByVernacular(q) up to its first await
SpeciesCall ==
    /\ species.pc = "idle"
    /\ species.calls < MaxSpeciesCalls
    /\ \E fn \in SpeciesFunctions, q \in SpeciesQueries :
         LET begun == [NoSpeciesCall EXCEPT !.fn = fn, !.q = q, !.calls = species.calls + 1]
             key == SpeciesKey(fn, q, SPECIES_LIMIT)
             g == getCached(cache, key, now)
         IN  IF QueryTooShort(q)
             THEN /\ species' = begun
                  /\ output' = << >>
                  /\ cache' = cache
             ELSE /\ cache' = g.cache
                  /\ IF g.value # None
                     THEN /\ species' = [begun EXCEPT !.key = key, !.reads = 1]
                          /\ output' = g.value[1]
                     ELSE /\ species' = [begun EXCEPT !.key = key, !.reads = 1,
                                                      !.requests = 1, !.pc = "waiting"]
                          /\ output' = << >>
    /\ UNCHANGED << clockVars, cacheOps, lastOp, written, dead, clientVars, displayVars,
                    controllerVars, homeVars, pdf, input >>

\* the request of the call is answered: setCache(key, data, 2 * 60 * 1000); return data
SpeciesResponds ==
    /\ species.pc = "waiting"
    /\ \E data \in SpeciesResults :
         /\ cache' = setCache(cache, species.key, data, Some(SPECIES_CACHE_TTL_MS), now)
         /\ output' = data
    /\ species' = [species EXCEPT !.pc = "idle", !.writes = 1]
    /\ UNCHANGED << clockVars, cacheOps, lastOp, written, dead, clientVars, displayVars,
                    controllerVars, homeVars, pdf, input >>

\* the request of the call fails: throw new GBIFApiError(...)
SpeciesFails ==
    /\ species.pc = "waiting"
    /\ species' = [species EXCEPT !.pc = "idle", !.threw = TRUE]
    /\ UNCHANGED << clockVars, cacheVars, clientVars, displayVars, controllerVars,
                    homeVars, pdf, pureVars >>

Init ==
    /\ now = 0
    /\ cache = EmptyMap
    /\ cacheOps = 0
    /\ lastOp = NoOp
    /\ written = EmptyMap
    /\ dead = {}
    /\ pc = "idle"
    /\ fetchArgs = NoFetchArgs
    /\ chunk = NoChunk
    /\ call = NoCall
    /\ wakeAt = None
    /\ res = None
    /\ outcome = NoOutcome
    /\ calls = << >>
    /\ http = << >>
    /\ ops = 0
    /\ nresp = 0
    /\ nhttp = 0
    /\ last429 = None
    /\ fetched = EmptyMap
    /\ occurrences = << >>
    /\ reported = << >>
    /\ error = None
    /\ loading = FALSE
    /\ filters = [taxonKey |-> None, taxonKeys |-> << >>]
    /\ selectedRegionBounds = None
    /\ viewBounds = "DEFAULT_BOUNDS"
    /\ fetchTimeout = None
    /\ timers = {}
    /\ burst = 0
    /\ panned = FALSE
    /\ failed = None
    /\ inflight = EmptyMap
    /\ started = 0
    /\ importedOccurrences = << >>
    /\ selectedYear = None
    /\ selectedMonth = None
    /\ alert = None
    /\ species = NoSpeciesCall
    /\ pdf = NoPdf
    /\ input = NoInput
    /\ output = None

vars == << now, cache, cacheOps, lastOp, written, dead, pc, fetchArgs, chunk, call,
          wakeAt, res, outcome, calls, http, ops, nresp, nhttp, last429, fetched,
          occurrences, reported, error, loading, filters, selectedRegionBounds,
          viewBounds, fetchTimeout, timers, inflight, started, burst, panned, failed,
          importedOccurrences, selectedYear, selectedMonth, alert, species, pdf,
          input, output >>
cacheGhostVars == << cacheOps, lastOp, written, dead >>

\* what the passing of time leaves alone
timelessVars == << cacheOps, dead, pc, fetchArgs, chunk, res, outcome, calls, http, ops,
                   nresp, nhttp, displayVars, filters, selectedRegionBounds, viewBounds,
                   fetchTimeout, inflight, started, burst, panned, failed,
                   importedOccurrences, selectedYear, selectedMonth, alert, species,
          input, output >>

NextCache ==
    \/ CacheSet /\ UNCHANGED << clockVars, clientVars, displayVars, controllerVars, pureVars, homeVars, panelVars >>
    \/ CacheGet /\ UNCHANGED << clockVars, clientVars, displayVars, controllerVars, pureVars, homeVars, panelVars >>
    \/ CacheClear /\ UNCHANGED << clockVars, clientVars, displayVars, controllerVars, pureVars, homeVars, panelVars >>
    \/ Tick /\ UNCHANGED timelessVars

SpecCache == Init /\ [][NextCache]_vars

NextKey == CallCacheKey

SpecKey == Init /\ [][NextKey]_vars

NextDate ==
    \/ CallOccurrenceYear
    \/ CallOccurrenceMonth
    \/ CallDisplayedOccurrences

SpecDate == Init /\ [][NextDate]_vars

NextExport ==
    \/ CallOccurrencesToGeoJSON
    \/ CallOccurrencesToCSV

SpecExport == Init /\ [][NextExport]_vars

NextImport ==
    \/ CallParseOccurrencesCSV
    \/ CallParseOccurrencesJSON

SpecImport == Init /\ [][NextImport]_vars

NextGeometry == CallBoundsToWktPolygon

SpecGeometry == Init /\ [][NextGeometry]_vars

NextQuery == CallSearchOccurrencesQuery

NextSpecies ==
    \/ SpeciesCall
    \/ SpeciesResponds
    \/ SpeciesFails
    \/ Tick /\ UNCHANGED timelessVars

SpecSpecies == Init /\ [][NextSpecies]_vars

\* PDF exports: requests of the user, animation frames, the fallback timers, time
pdfFrame == << cacheVars, clientVars, displayVars, controllerVars, homeVars, species,
               pureVars >>
NextPdf ==
    \/ handleExportPDF /\ UNCHANGED << clockVars, pdfFrame >>
    \/ AnimationFrame /\ UNCHANGED << clockVars, pdfFrame >>
    \/ PdfTimeoutFires /\ UNCHANGED << clockVars, pdfFrame >>
    \/ Tick /\ UNCHANGED timelessVars

SpecPdf == Init /\ [][NextPdf]_vars

\* a timer that is due fires and time passes: the event loop runs the callback of every
\* setTimeout.  An animation frame need not come (a hidden tab gets none)
SpecPdfLive ==
    /\ SpecPdf
    /\ \A i \in 1..MaxPdfRequests : WF_vars(PdfTimeout(i) /\ UNCHANGED << clockVars, pdfFrame >>)
    /\ WF_vars(Tick /\ UNCHANGED timelessVars)

SpecQuery == Init /\ [][NextQuery]_vars

\* Home with the fetches of GlobeViewer seen from outside: results that arrive
NextHome ==
    \/ ResultsArrive /\ UNCHANGED << clockVars, cacheVars, clientVars, controllerVars, panelVars >>
    \/ handleImportFile /\ UNCHANGED << clockVars, cacheVars, clientVars, controllerVars, panelVars >>
    \/ handleClearImport /\ UNCHANGED << clockVars, cacheVars, clientVars, controllerVars, panelVars >>
    \/ TimelineYear /\ UNCHANGED << clockVars, cacheVars, clientVars, panelVars >>
    \/ TimelineMonth /\ UNCHANGED << clockVars, cacheVars, clientVars, panelVars >>
    \/ handleExport /\ UNCHANGED << clockVars, cacheVars, clientVars, controllerVars, panelVars >>

SpecHome == Init /\ [][NextHome]_vars

\* Home and the refetch controller of GlobeViewer together: the taxon selection, the
\* debounce, fetches that resolve with dated records, imports, and the timeline
NextTimeline ==
    \/ SetTaxonFilters /\ UNCHANGED << clockVars, cacheVars, clientVars, panelVars >>
    \/ DebounceFires /\ UNCHANGED << clockVars, cacheVars, clientVars, pureVars, homeVars, panelVars >>
    \/ FetchDelivers /\ UNCHANGED << clockVars, cacheVars, clientVars, panelVars >>
    \/ handleImportFile /\ UNCHANGED << clockVars, cacheVars, clientVars, controllerVars, panelVars >>
    \/ TimelineYear /\ UNCHANGED << clockVars, cacheVars, clientVars, panelVars >>
    \/ TimelineMonth /\ UNCHANGED << clockVars, cacheVars, clientVars, panelVars >>
    \/ Tick /\ UNCHANGED timelessVars

SpecTimeline == Init /\ [][NextTimeline]_vars

NextClient ==
    \/ FetchStart /\ UNCHANGED << clockVars, cacheGhostVars, controllerVars, pureVars, homeVars, panelVars >>
    \/ HttpOk /\ UNCHANGED << clockVars, cacheGhostVars, controllerVars, pureVars, homeVars, panelVars >>
    \/ HttpFail /\ UNCHANGED << clockVars, cacheGhostVars, controllerVars, pureVars, homeVars, panelVars >>
    \/ RetryFires /\ UNCHANGED << clockVars, cacheGhostVars, controllerVars, pureVars, homeVars, panelVars >>
    \/ PageArrives /\ UNCHANGED << clockVars, cacheGhostVars, controllerVars, pureVars, homeVars, panelVars >>
    \/ ChunkDelayFires /\ UNCHANGED << clockVars, cacheGhostVars, controllerVars, pureVars, homeVars, panelVars >>
    \/ FetchSettle /\ UNCHANGED << clockVars, cacheGhostVars, controllerVars, pureVars, homeVars, panelVars >>
    \/ Tick /\ UNCHANGED timelessVars

SpecClient == Init /\ [][NextClient]_vars

\* the refetch controller, with searchOccurrencesChunked seen from outside: a promise that
\* settles some time after the run started
Next ==
    \/ ChangeFilters /\ UNCHANGED << clockVars, cacheVars, clientVars, pureVars, homeVars, panelVars >>
    \/ ChangeRegion /\ UNCHANGED << clockVars, cacheVars, clientVars, pureVars, homeVars, panelVars >>
    \/ PanZoom /\ UNCHANGED << clockVars, cacheVars, clientVars, pureVars, homeVars, panelVars >>
    \/ DebounceFires /\ UNCHANGED << clockVars, cacheVars, clientVars, pureVars, homeVars, panelVars >>
    \/ SettleFetch /\ UNCHANGED << clockVars, cacheVars, clientVars, pureVars, homeVars, panelVars >>
    \/ Tick /\ UNCHANGED timelessVars

Spec == Init /\ [][Next]_vars

(* ============================== the claims ============================== *)
Is429(i) == http[i].answer = "error" /\ http[i].status = Some(429)
Last(log) == log[Len(log)]

\* C1 (as the specification states it).  Last-request-wins: when a fetchOccurrences run
\* settles (with a result or an error) after a later run has started, its outcome is not
\* applied: the displayed occurrences, the occurrences reported to the parent and the
\* error string stay as they are.
C1_StaleOutcomeDiscarded ==
    [][\A i \in DOMAIN inflight :
         (i \notin DOMAIN inflight' /\ i < started)
           => UNCHANGED << occurrences, reported, error >>]_vars

\* ceil(m / 300)
PagesFor(m) == (m + 299) \div 300
AllPagesFull ==
    \A k \in 1..Len(calls) :
        /\ calls[k].got # None
        /\ calls[k].got[1].n = calls[k].limit
        /\ ~calls[k].got[1].endOfRecords

PagesGot == [k \in 1..Len(calls) |-> [id |-> calls[k].got[1].id, n |-> calls[k].got[1].n]]
HasRecords(p) == p.n > 0

\* C3.  Once a page has come back with fewer records than the limit asked for it, or with
\* endOfRecords, the operation issues no further page request (every page request but the
\* last was answered by a full page without endOfRecords), and the operation resolves with
\* the records of all pages received, the short page included.
C3_StopsAtShortPage ==
    /\ \A k \in 1..(Len(calls) - 1) :
         /\ calls[k].got # None
         /\ calls[k].got[1].n >= calls[k].limit
         /\ ~calls[k].got[1].endOfRecords
    /\ pc = "resolved" => outcome.results = SelectSeq(PagesGot, HasRecords)
C3_Witness ==
    /\ pc = "resolved"
    /\ chunk.maxTotal = 1000
    /\ Len(calls) = 2
    /\ calls[2].got[1].n = 299
    /\ ~calls[2].got[1].endOfRecords
    /\ Length(outcome.results) = 599

\* C4.  When a page request of searchOccurrencesChunked fails (an HTTP attempt fails and
\* is not retried), the operation rejects with that error and issues no further page
\* request; fetchOccurrences then shows and reports an empty occurrence set and the error
\* message: the pages fetched before the failure reach nobody.
C4_FailureAborts ==
    [][/\ (pc = "http" /\ Last(http').answer = "error" /\ pc' # "retryWait")
            => /\ pc' = "rejected"
               /\ outcome'.kind = "error"
               /\ outcome'.status = Last(http').status
               /\ outcome'.results = << >>
               /\ calls' = calls
               /\ http' = [http EXCEPT ![Len(http)] = Last(http')]
       /\ pc = "rejected"
            => /\ pc' = "idle"
               /\ occurrences' = << >>
               /\ reported' = << >>
               /\ error' = Some(outcome.message)]_vars
C4_Witness ==
    /\ pc = "rejected"
    /\ Length(chunk.allResults) = 300
    /\ Len(calls) = 2
    /\ Last(http).status = Some(400)

\* C5.  One searchOccurrences call makes at most 3 HTTP attempts; every attempt after the
\* first directly follows an attempt of the same call that was answered with 429; when
\* the third attempt is answered with 429 the call rejects with status 429.
C5_AtMostThreeAttempts ==
    /\ \A i \in 1..Len(http) :
         /\ http[i].attempt <= 2
         /\ http[i].attempt > 0
              => /\ i > 1
                 /\ Is429(i - 1)
                 /\ http[i - 1].offset = http[i].offset
                 /\ http[i - 1].attempt + 1 = http[i].attempt
         /\ (http[i].attempt = 2 /\ Is429(i))
              => /\ i = Len(http)
                 /\ pc = "rejected"
                 /\ outcome.kind = "error"
                 /\ outcome.status = Some(429)
    /\ \A i \in 1..Len(http) :
         Cardinality({j \in 1..Len(http) : http[j].offset = http[i].offset}) <= 3
C5_Witness ==
    /\ pc = "rejected"
    /\ Len(http) = 3
    /\ Last(http).attempt = 2
    /\ outcome.status = Some(429)

\* C6 (as the specification states it).  After 2 consecutive 429 responses to one
\* searchOccurrences call the rate-limit error is raised and no further request is made
\* for the call.
C6_ErrorAfterTwo429 ==
    \A i \in 1..Len(http) :
        (http[i].attempt = 1 /\ Is429(i))
          => /\ i = Len(http)
             /\ pc = "rejected"
             /\ outcome.status = Some(429)

\* C6 (amended).  The rate-limit error is raised only after 3 consecutive 429 responses
\* to one call (the first attempt and both retries); after 2 consecutive 429 responses
\* the call waits and makes a third attempt; after the third 429 no request follows.
C6_ErrorAfterThree429 ==
    /\ (pc = "rejected" /\ outcome.status = Some(429))
         => /\ Len(http) >= 3
            /\ \A j \in (Len(http) - 2)..Len(http) :
                 Is429(j) /\ http[j].offset = Last(http).offset
    /\ \A i \in 1..Len(http) :
         /\ (http[i].attempt = 1 /\ Is429(i))
              => IF i = Len(http) THEN pc = "retryWait"
                 ELSE http[i + 1].attempt = 2 /\ http[i + 1].offset = http[i].offset
         /\ (http[i].attempt = 2 /\ Is429(i)) => (i = Len(http) /\ pc = "rejected")
C6_Witness ==
    /\ pc = "http"
    /\ call.attempt = 2
    /\ Len(http) >= 3
    /\ Is429(Len(http) - 1)
    /\ Is429(Len(http) - 2)

\* the wait the claim states for each Retry-After header of the model
C7_Wait(header) ==
    CASE header = None -> 8000
      [] header = Some(<< "2" >>) -> 2000
      [] header = Some(<< "6", "1" >>) -> 60000
      [] header = Some(<< "2", "s" >>) -> 8000

\* C7.  The retry after a 429 is scheduled Retry-After * 1000 ms after the response when
\* the header is a string of digits, at most 60000 ms, and 8000 ms after it when the
\* header is missing or not numeric; the retry request is not issued before that.
C7_RetryWait ==
    /\ pc = "retryWait"
         => /\ last429 # None
            /\ wakeAt = Some(last429[1].at + C7_Wait(last429[1].retryAfter))
    /\ (pc = "http" /\ call.attempt > 0)
         => /\ last429 # None
            /\ now - last429[1].at >= C7_Wait(last429[1].retryAfter)
C7_Witness ==
    /\ pc = "http"
    /\ call.attempt > 0
    /\ last429 # None
    /\ last429[1].retryAfter = Some(<< "6", "1" >>)
    /\ now - last429[1].at = 60000

\* C8.  An attempt that fails with an HTTP status other than 429, or with no status (a
\* network error, a timeout), is the last attempt of the operation: the call rejects at
\* once with that status (none if there is none), also when the attempt was a retry.
C8_NoRetryOfOtherFailures ==
    \A i \in 1..Len(http) :
        (http[i].answer = "error" /\ http[i].status # Some(429))
          => /\ i = Len(http)
             /\ pc = "rejected"
             /\ outcome.kind = "error"
             /\ outcome.status = http[i].status
C8_Witness ==
    /\ pc = "rejected"
    /\ Len(http) = 2
    /\ Is429(1)
    /\ Last(http).attempt = 1
    /\ Last(http).status = None
    /\ outcome.status = None

\* C9 (as the specification states it).  A searchOccurrences call whose transmitted
\* parameters equal those of a call that fetched a response less than 15 minutes before
\* issues no HTTP request.
C9_RepeatedQueryHitsCache ==
    pc \in {"http", "retryWait"} =>
        LET w == serializeOccurrenceParams(call.params)
        IN  ~(w \in DOMAIN fetched /\ call.at - fetched[w].at < 15 * 60 * 1000)

\* C10.  getCached never returns a value after its expiry time (time of setCache + ttl):
\* what it returns is the value of the latest setCache for the key, read no later than
\* the expiry time; a read of an expired key returns null and removes the entry; and
\* every read of a key that a read found expired, with no setCache since, returns null.
C10_NeverReturnsExpired ==
    lastOp.op = "get" =>
        /\ lastOp.value # None
             => /\ lastOp.key \in DOMAIN written
                /\ lastOp.value = Some(written[lastOp.key].value)
                /\ lastOp.at <= written[lastOp.key].at + written[lastOp.key].ttl
        /\ lastOp.expired => (lastOp.value = None /\ lastOp.key \notin DOMAIN cache)
        /\ lastOp.wasDead => lastOp.value = None
C10_Witness ==
    /\ lastOp.op = "get"
    /\ lastOp.wasDead
    /\ lastOp.expired
    /\ lastOp.value = None
    /\ lastOp.key \in DOMAIN written

\* the objects with the properties of params in another insertion order
Reordered(params) ==
    { o \in [1..Len(params) -> {params[i] : i \in 1..Len(params)}] :
        \A i, j \in 1..Len(params) : o[i] = o[j] => i = j }

\* C11.  cacheKey(prefix, params) is the same for every insertion order of the keys of
\* params, and differs from the key of the same params under any other prefix.
C11_KeyOrderAndPrefix ==
    input.fn = "cacheKey" =>
        /\ \A o \in Reordered(input.params) : cacheKey(input.prefix, o) = output
        /\ \A p \in KeyPrefixes \ {input.prefix} : cacheKey(p, input.params) # output
C11_Witness ==
    /\ input.fn = "cacheKey"
    /\ Len(input.params) = 3
    /\ ObjectKeys(input.params) = << << "b" >>, << "t", "a", "x", "o", "n", "K", "e", "y" >>,
                                     << "a" >> >>
    /\ output = << "o", "c", "c", ":", "{", "\"", "a", "\"", ":", "1", ",",
                   "\"", "b", "\"", ":", "2", ",",
                   "\"", "t", "a", "x", "o", "n", "K", "e", "y", "\"", ":",
                   "[", "2", "1", "2", ",", "3", "5", "9", "]", "}" >>

RegionOrFiltersChange == filters' # filters \/ selectedRegionBounds' # selectedRegionBounds
\* the one timer a change leaves pending: due in 800 ms, for the new filters and region
RestartedTimer ==
    /\ Cardinality(timers') = 1
    /\ \A t \in timers' :
         /\ t.due = now + 800
         /\ t.filters = filters'
         /\ selectedRegionBounds' # None => t.bounds = selectedRegionBounds'[1]
         /\ \A u \in timers : u.id # t.id

NoTaxonConstraint(f) == f.taxonKey = None /\ f.taxonKeys = << >>

C14_CameraReportUnderRegion ==
    [][(selectedRegionBounds # None /\ viewBounds' # viewBounds)
         => UNCHANGED << timers, fetchTimeout, started, inflight, occurrences, reported, error,
                         loading, filters, selectedRegionBounds >>]_vars
C14_Witness ==
    /\ panned
    /\ selectedRegionBounds = Some("AFRICA")
    /\ viewBounds = "ZOOMED"
    /\ \E t \in timers : t.due = now + 400 /\ t.bounds = "AFRICA"
    /\ started = 0

\* C15 (as the specification states it).  While 'current view' is selected (no
\* selectedRegionBounds) and the filters have a taxon constraint, a camera report that
\* changes the view bounds (re)starts the debounce timer: a timer due in 800 ms is
\* pending, whose fetch is for the new view bounds.
C15_CameraReportRestartsTimer ==
    [][(selectedRegionBounds = None /\ ~NoTaxonConstraint(filters) /\ viewBounds' # viewBounds)
         => \E t \in timers' : t.due = now + 800 /\ t.bounds = viewBounds']_vars

\* C16.  When a fetch the controller started fails, the displayed and the reported
\* occurrences become empty and the error string becomes the message of the failure; the
\* failure sets no timer and starts no fetch.  A fetch starts only from a debounce timer
\* that is due, and a timer is created only by a run of the effect for new filters or a
\* new region: after a failure nothing is fetched again unless one of them changes.
C16_FailureClearsAndWaits ==
    [][/\ (failed' # None /\ inflight' # inflight)
            => /\ occurrences' = << >>
               /\ reported' = << >>
               /\ error' = failed'
               /\ UNCHANGED << timers, fetchTimeout, started >>
               /\ DOMAIN inflight' \subseteq DOMAIN inflight
       /\ started' # started => \E t \in timers : now >= t.due /\ t \notin timers'
       /\ (\E t \in timers' : \A u \in timers : u.id # t.id)
            => /\ RegionOrFiltersChange \/ Len(filters'.taxonKeys) > 0
               /\ failed' = None
               /\ UNCHANGED << started, inflight >>]_vars
C16_Witness ==
    /\ failed = Some("Request failed")
    /\ error = Some("Request failed")
    /\ occurrences = << >>
    /\ reported = << >>
    /\ ~loading
    /\ timers = {}
    /\ inflight = EmptyMap
    /\ started = 2

\* C17 (as the specification states it).  loading is true in every state in which a
\* fetch the controller started has not yet settled, and false when none is in flight.
C17_LoadingWhileInFlight == loading = (inflight # EmptyMap)

\* what the leading YYYY and YYYY-MM of each eventDate of EventDates say: "2020" has a
\* year and no month; "2021-05" and "2020-03-15" have both; in "2021-13-01" and "2020-00"
\* the month is out of range; "20200315", "2020-3-15" and "2020/03" begin with a year and
\* with no YYYY-MM; "May 2020" and "202" begin with neither
LeadingDate(ed) ==
    CASE ed = None -> [year |-> None, month |-> None]
      [] ed = Some(<< "2", "0", "2", "0" >>)
           -> [year |-> Some(2020), month |-> None]
      [] ed = Some(<< "2", "0", "2", "1", "-", "0", "5" >>)
           -> [year |-> Some(2021), month |-> Some(5)]
      [] ed = Some(<< "2", "0", "2", "0", "-", "0", "3", "-", "1", "5" >>)
           -> [year |-> Some(2020), month |-> Some(3)]
      [] ed = Some(<< "2", "0", "2", "1", "-", "1", "3", "-", "0", "1" >>)
           -> [year |-> Some(2021), month |-> None]
      [] ed = Some(<< "2", "0", "2", "0", "-", "0", "0" >>)
           -> [year |-> Some(2020), month |-> None]
      [] ed = Some(<< "2", "0", "2", "0", "0", "3", "1", "5" >>)
           -> [year |-> Some(2020), month |-> None]
      [] ed = Some(<< "2", "0", "2", "0", "-", "3", "-", "1", "5" >>)
           -> [year |-> Some(2020), month |-> None]
      [] ed = Some(<< "M", "a", "y", " ", "2", "0", "2", "0" >>)
           -> [year |-> None, month |-> None]
      [] ed = Some(<< "2", "0", "2" >>)
           -> [year |-> None, month |-> None]
      [] ed = Some(<< "2", "0", "2", "0", "/", "0", "3" >>)
           -> [year |-> Some(2020), month |-> None]

\* C19.  occurrenceYear returns the year field when the record has one and otherwise the
\* leading YYYY of eventDate; occurrenceMonth returns the month field when the record has
\* one in 1..12 and otherwise the month of the leading YYYY-MM of eventDate when that is
\* in 1..12; in every other case the result is null: a date with a year only has month
\* null, not 1.
C19_StructuredThenEventDate ==
    /\ input.fn = "occurrenceYear"
         => output = IF input.occ.year # None THEN input.occ.year
                     ELSE LeadingDate(input.occ.eventDate).year
    /\ input.fn = "occurrenceMonth"
         => output = IF input.occ.month \in {Some(m) : m \in 1..12} THEN input.occ.month
                     ELSE LeadingDate(input.occ.eventDate).month
C19_Witness ==
    /\ input.fn = "occurrenceMonth"
    /\ input.occ.month = None
    /\ input.occ.eventDate = Some(<< "2", "0", "2", "0" >>)
    /\ output = None

\* the records of list that satisfy Keep, in the order of list: out has one entry per kept
\* index, the j-th entry being the record at the j-th kept index
IsRestriction(out, list, Keep(_)) ==
    LET kept == {i \in DOMAIN list : Keep(list[i])}
    IN  /\ Len(out) = Cardinality(kept)
        /\ \A j \in DOMAIN out :
             \E i \in kept : Cardinality({k \in kept : k <= i}) = j /\ out[j] = list[i]

\* C18.  The displayed collection is the API records followed by all imported records
\* when no year is selected, whatever month is selected; with a year selected it is the
\* records of that list whose derived year is the selected one, and with a month selected
\* as well, those of them whose derived month is the selected one: a record without a
\* month stays under a year filter and goes under a year-and-month filter.
C18_DisplayedCollection ==
    input.fn = "displayedOccurrences"
      => LET combined == input.occurrences \o input.importedOccurrences
             InYear(o) == occurrenceYear(o) = input.timeFilterYear
             InYearAndMonth(o) == InYear(o) /\ occurrenceMonth(o) = input.timeFilterMonth
         IN  /\ input.timeFilterYear = None => output = combined
             /\ (input.timeFilterYear # None /\ input.timeFilterMonth = None)
                  => IsRestriction(output, combined, InYear)
             /\ (input.timeFilterYear # None /\ input.timeFilterMonth # None)
                  => /\ IsRestriction(output, combined, InYearAndMonth)
                     /\ \A j \in DOMAIN output : occurrenceMonth(output[j]) # None
C18_Witness ==
    /\ input.fn = "displayedOccurrences"
    /\ input.occurrences =
         << [key |-> 1, year |-> Some(2020), month |-> Some(3), eventDate |-> Some(<< "2", "0", "2", "0", "-", "0", "3", "-", "1", "5" >>)],
            [key |-> 2, year |-> Some(2020), month |-> None, eventDate |-> Some(<< "2", "0", "2", "0" >>)] >>
    /\ input.importedOccurrences =
         << [key |-> -1, year |-> Some(2021), month |-> None, eventDate |-> Some(<< "2", "0", "2", "1", "-", "0", "5", "-", "0", "7" >>)] >>
    /\ input.timeFilterYear = Some(2020)
    /\ input.timeFilterMonth = Some(3)
    /\ output = << input.occurrences[1] >>

\* C20 (as the specification states it).  The records an export serializes are the
\* records handed to the map for display: the API results followed by the imported
\* records, restricted by the selected year and month.
C20_ExportsDisplayedCollection ==
    [][(input'.fn \in ExportHandlers /\ << input, output >>' # << input, output >>)
         => output' = displayedOccurrences(occurrences', importedOccurrences',
                                           selectedYear', selectedMonth')]_vars

\* the lines of a text: text.split('\n')
RECURSIVE Lines(_)
Lines(text) ==
    IF \A i \in 1..Len(text) : text[i] # "\n" THEN << text >>
    ELSE LET n == CHOOSE i \in 1..Len(text) :
                    text[i] = "\n" /\ \A j \in 1..(i - 1) : text[j] # "\n"
         IN  << SubSeq(text, 1, n - 1) >> \o Lines(SubSeq(text, n + 1, Len(text)))

\* the record has a latitude and a longitude that are numbers
HasCoordinates(o) ==
    /\ \E i \in 1..Len(o) : o[i].k = << "d", "e", "c", "i", "m", "a", "l", "L", "a", "t", "i", "t", "u", "d", "e" >> /\ o[i].t = "num"
    /\ \E i \in 1..Len(o) : o[i].k = << "d", "e", "c", "i", "m", "a", "l", "L", "o", "n", "g", "i", "t", "u", "d", "e" >> /\ o[i].t = "num"
Coordinate(o, k) == o[CHOOSE i \in 1..Len(o) : o[i].k = k].v[1]

C22_KeysBySource ==
    LET all == allOccurrences(reported, importedOccurrences)
    IN  /\ \A i \in DOMAIN reported : reported[i].key > 0
        /\ \A i \in DOMAIN importedOccurrences : importedOccurrences[i].key < 0
        /\ \A i, j \in DOMAIN all : all[i].key = all[j].key => i = j

\* the data lines of a CSV text of CsvTexts, and the items of a JSON text
DataLines(text) == Tail(Lines(text))
SourceRows == IF input.fn = "parseOccurrencesCSV" THEN DataLines(input.text) ELSE input.data.items
FromParser == input.fn \in {"parseOccurrencesCSV", "parseOccurrencesJSON"}

\* C23.  The records of parseOccurrencesCSV and of parseOccurrencesJSON that have a
\* synthetic key have the keys -1, -2, -3, ... in the order of the result: a rejected row
\* or object uses up no key.
C23_SyntheticKeysWithoutGaps ==
    FromParser
      => LET synthetic == SelectSeq(output, LAMBDA o : o.key < 0)
         IN  \A j \in DOMAIN synthetic : synthetic[j].key = 0 - j
C23_Witness ==
    /\ input.fn = "parseOccurrencesCSV"
    /\ input.text = << "d", "e", "c", "i", "m", "a", "l", "L", "a", "t", "i", "t", "u", "d", "e", ",", "d", "e", "c", "i", "m", "a", "l", "L", "o", "n", "g", "i", "t", "u", "d", "e", ",", "k", "e", "y", "\n", "5", "9", ",", "1", "8", ",", "7", "\n", ",", "1", "8", ",", "7", "\n", "5", "9", ",", "1", "8", ",", "7" >>
    /\ Len(output) = 2
    /\ output[1].key = -1
    /\ output[2].key = -2

\* the rows of CsvDataLines and the objects of JsonItems that have a positive integer key
\* and valid coordinates: the key is 7
KeyedLines == { << "5", "9", ",", "1", "8", ",", "7" >> }
KeyedItems ==
    { Obj(<< [k |-> << "k", "e", "y" >>, val |-> NumV(7)],
             [k |-> << "d", "e", "c", "i", "m", "a", "l", "L", "a", "t", "i", "t", "u", "d", "e" >>, val |-> NumV(59)],
             [k |-> << "d", "e", "c", "i", "m", "a", "l", "L", "o", "n", "g", "i", "t", "u", "d", "e" >>, val |-> NumV(-18)] >>) }

\* C24 (as the specification states it).  A row of a CSV text and an object of a JSON
\* text that hold a positive integer key keep it on import: the result has as many
\* records with that key as the source has accepted rows with it, and every other record
\* has a negative key.
C24_PositiveKeyKept ==
    FromParser
      => /\ Cardinality({j \in DOMAIN output : output[j].key = 7})
              = Cardinality({i \in DOMAIN SourceRows :
                               IF input.fn = "parseOccurrencesCSV"
                               THEN SourceRows[i] \in KeyedLines
                               ELSE SourceRows[i] \in KeyedItems})
         /\ \A j \in DOMAIN output : output[j].key = 7 \/ output[j].key < 0

\* the rows of CsvDataLines and the objects of JsonItems with a latitude in [-90, 90] and a
\* longitude in [-180, 180], and these coordinates
ValidLines ==
    { << << "5", "9", ",", "1", "8", ",", "7" >>, 59, 18 >>,
      << << "\"", "-", "1", ",", "0", "\"", ",", "-", "1", "8", "0" >>, -10, -180 >> }
ValidItems ==
    { << Obj(<< [k |-> << "d", "e", "c", "i", "m", "a", "l", "L", "a", "t", "i", "t", "u", "d", "e" >>, val |-> NumV(59)],
                [k |-> << "d", "e", "c", "i", "m", "a", "l", "L", "o", "n", "g", "i", "t", "u", "d", "e" >>, val |-> NumV(18)] >>), 59, 18 >>,
      << Obj(<< [k |-> << "k", "e", "y" >>, val |-> NumV(7)],
                [k |-> << "d", "e", "c", "i", "m", "a", "l", "L", "a", "t", "i", "t", "u", "d", "e" >>, val |-> NumV(59)],
                [k |-> << "d", "e", "c", "i", "m", "a", "l", "L", "o", "n", "g", "i", "t", "u", "d", "e" >>, val |-> NumV(-18)] >>), 59, -18 >>,
      << Obj(<< [k |-> << "k", "e", "y" >>, val |-> StrV(<< "7" >>)],
                [k |-> << "d", "e", "c", "i", "m", "a", "l", "l", "a", "t", "i", "t", "u", "d", "e" >>, val |-> StrV(<< "5", "9" >>)],
                [k |-> << "d", "e", "c", "i", "m", "a", "l", "l", "o", "n", "g", "i", "t", "u", "d", "e" >>, val |-> StrV(<< "1", "8" >>)] >>), 59, 18 >> }

\* C25.  Every record of parseOccurrencesCSV and of parseOccurrencesJSON has a latitude in
\* [-90, 90] and a longitude in [-180, 180]; the result has one record for each row or
\* object with such coordinates, in the order of the source, whatever the other rows are:
\* a row without them is left out and changes nothing else.
C25_OnlyValidCoordinates ==
    FromParser
      => LET ValidRows == IF input.fn = "parseOccurrencesCSV" THEN ValidLines ELSE ValidItems
             valid == {i \in DOMAIN SourceRows : \E v \in ValidRows : v[1] = SourceRows[i]}
         IN  /\ \A j \in DOMAIN output :
                  /\ output[j].decimalLatitude \in {Some(d) : d \in -90..90}
                  /\ output[j].decimalLongitude \in {Some(d) : d \in -180..180}
             /\ Len(output) = Cardinality(valid)
             /\ \A j \in DOMAIN output :
                  \E i \in valid :
                    /\ Cardinality({k \in valid : k <= i}) = j
                    /\ << SourceRows[i], output[j].decimalLatitude[1],
                          output[j].decimalLongitude[1] >> \in ValidRows
C25_Witness ==
    /\ input.fn = "parseOccurrencesJSON"
    /\ input.data.kind = "results"
    /\ Len(input.data.items) = 3
    /\ input.data.items[1] = NullItem
    /\ RowGet(input.data.items[2].row, << "d", "e", "c", "i", "m", "a", "l", "L", "a", "t", "i", "t", "u", "d", "e" >>) = UndefV
    /\ Len(output) = 1
    /\ output[1].decimalLongitude = Some(-18)

\* C26 (as the specification states it).  An import of a file that cannot be read as CSV
\* or JSON, or that has no record with valid coordinates, ends in the notification of
\* window.alert.
C26_UnusableFileNotifies ==
    [][(/\ input'.fn = "handleImportFile"
        /\ << input, importedOccurrences, alert >>' # << input, importedOccurrences, alert >>
        /\ ImportSettled[input'.file].value = << >>)
         => alert' # None]_vars

\* s.split(sep)
RECURSIVE SplitOn(_, _)
SplitOn(s, sep) ==
    LET At(i) == i + Len(sep) - 1 <= Len(s) /\ SubSeq(s, i, i + Len(sep) - 1) = sep
    IN  IF \A i \in 1..Len(s) : ~At(i) THEN << s >>
        ELSE LET n == CHOOSE i \in 1..Len(s) : At(i) /\ \A j \in 1..(i - 1) : ~At(j)
             IN  << SubSeq(s, 1, n - 1) >> \o SplitOn(SubSeq(s, n + Len(sep), Len(s)), sep)

\* the points of the ring of a WKT polygon 'POLYGON((x y, x y, ...))': pairs of whole
\* numbers; a piece that is no such pair gives the empty tuple
WktPoints(wkt) ==
    LET pieces == SplitOn(SubSeq(wkt, 10, Len(wkt) - 2), << ",", " " >>)
        Point(piece) ==
            LET xy == SplitOn(piece, << " " >>)
            IN  IF Len(xy) = 2 /\ xy[1] # << >> /\ xy[2] # << >>
                   /\ ToNumber(xy[1]) # None /\ ToNumber(xy[2]) # None
                THEN << ToNumber(xy[1])[1], ToNumber(xy[2])[1] >>
                ELSE << >>
    IN  [i \in 1..Len(pieces) |-> Point(pieces[i])]

\* twice the signed area of a closed ring by the shoelace formula, x the longitude and y
\* the latitude: positive for a counter-clockwise ring
RECURSIVE Shoelace(_)
Shoelace(ring) ==
    IF Len(ring) < 2 THEN 0
    ELSE ring[1][1] * ring[2][2] - ring[2][1] * ring[1][2] + Shoelace(Tail(ring))

\* C27 (as the specification states it).  For bounds with west < east and south < north
\* the ring of boundsToWktPolygon winds counter-clockwise: its signed shoelace area is
\* positive.
C27_RingCounterClockwise ==
    (/\ input.fn = "boundsToWktPolygon"
     /\ input.bounds.west < input.bounds.east
     /\ input.bounds.south < input.bounds.north)
      => Shoelace(WktPoints(output)) > 0

\* C28.  boundsToWktPolygon returns 'POLYGON((' followed by exactly the five points
\* (west south), (west north), (east north), (east south), (west south), each as
\* 'lon lat' and separated by ', ', and then '))': the first point is the last, and the
\* string is a function of the bounds.
C28_WktFivePoints ==
    input.fn = "boundsToWktPolygon"
      => LET b == input.bounds
         IN  /\ SubSeq(output, 1, 9) = << "P", "O", "L", "Y", "G", "O", "N", "(", "(" >>
             /\ SubSeq(output, Len(output) - 1, Len(output)) = << ")", ")" >>
             /\ WktPoints(output) = << << b.west, b.south >>, << b.west, b.north >>,
                                       << b.east, b.north >>, << b.east, b.south >>,
                                       << b.west, b.south >> >>
             /\ output = boundsToWktPolygon(b)
             /\ (b = [west |-> 10, south |-> 58, east |-> 20, north |-> 62]
                   => output = << "P", "O", "L", "Y", "G", "O", "N", "(", "(", "1", "0", " ", "5", "8", ",", " ", "1", "0", " ", "6", "2", ",", " ", "2", "0", " ", "6", "2", ",", " ", "2", "0", " ", "5", "8", ",", " ", "1", "0", " ", "5", "8", ")", ")" >>)
             /\ (b = [west |-> -18, south |-> -90, east |-> -180, north |-> 58]
                   => output = << "P", "O", "L", "Y", "G", "O", "N", "(", "(", "-", "1", "8", " ", "-", "9", "0", ",", " ", "-", "1", "8", " ", "5", "8", ",", " ", "-", "1", "8", "0", " ", "5", "8", ",", " ", "-", "1", "8", "0", " ", "-", "9", "0", ",", " ", "-", "1", "8", " ", "-", "9", "0", ")", ")" >>)
C28_Witness ==
    /\ input.fn = "boundsToWktPolygon"
    /\ input.bounds = [west |-> 10, south |-> 58, east |-> 20, north |-> 62]
    /\ output = << "P", "O", "L", "Y", "G", "O", "N", "(", "(", "1", "0", " ", "5", "8", ",", " ", "1", "0", " ", "6", "2", ",", " ", "2", "0", " ", "6", "2", ",", " ", "2", "0", " ", "5", "8", ",", " ", "1", "0", " ", "5", "8", ")", ")" >>

\* the values of the taxonKey pairs of a query string, in order; a value that is no
\* whole number (a comma-joined list) gives the empty tuple in its place
TransmittedTaxonKeys(query) ==
    LET pairs == SplitOn(query, << "&" >>)
        taxon == SelectSeq(pairs, LAMBDA p : SplitOn(p, << "=" >>)[1] = << "t", "a", "x", "o", "n", "K", "e", "y" >>)
        Value(p) ==
            LET v == SplitOn(p, << "=" >>)[2]
            IN  IF v # << >> /\ ToNumber(v) # None THEN ToNumber(v)[1] ELSE << >>
    IN  [i \in 1..Len(taxon) |-> Value(taxon[i])]

C30_MostRecentUnexpiredValue ==
    lastOp.op = "get" =>
        /\ lastOp.key \notin DOMAIN written => lastOp.value = None
        /\ (/\ lastOp.key \in DOMAIN written
            /\ lastOp.at <= written[lastOp.key].at + written[lastOp.key].ttl)
             => lastOp.value = Some(written[lastOp.key].value)
C30_Witness ==
    /\ lastOp.op = "get"
    /\ lastOp.key \in DOMAIN written
    /\ written[lastOp.key].over = Some("v1")
    /\ lastOp.value = Some("v2")
    /\ lastOp.at > written[lastOp.key].at + DEFAULT_TTL_MS

\* C31.  A call of suggestSpecies or searchSpeciesByVernacular with a query that is empty
\* or shorter than 2 characters returns the empty list at once: it issues no network
\* request, reads and writes no cache entry, and leaves the cache as it is.
C31_ShortQueryShortCircuits ==
    [][(species'.calls # species.calls /\ Len(species'.q) < 2)
         => /\ species'.pc = "idle"
            /\ ~species'.threw
            /\ output' = << >>
            /\ species'.requests = 0
            /\ species'.reads = 0
            /\ species'.writes = 0
            /\ cache' = cache]_vars
C31_Witness ==
    /\ species.fn = "searchSpeciesByVernacular"
    /\ species.q = << "P" >>
    /\ species.calls = 2
    /\ species.pc = "idle"
    /\ output = << >>
    /\ DOMAIN cache # {}

C33_SequentialPagesWithDelay ==
    [][/\ \A k \in DOMAIN http' : http'[k].answer = "pending" => k = Len(http')
       /\ Len(calls') > Len(calls)
            => /\ Len(calls') = Len(calls) + 1
               /\ \A k \in DOMAIN calls : calls[k].got # None
               /\ Length(chunk'.allResults) >= 300 * Len(calls) \/ chunk'.direct
               /\ IF Len(calls) = 0
                  THEN ops' = ops + 1
                  ELSE pc = "chunkDelay" /\ wakeAt # None /\ now >= wakeAt[1]
       /\ (pc' = "chunkDelay" /\ pc # "chunkDelay")
            => /\ wakeAt' = Some(now + 400)
               /\ pc = "page"
               /\ Length(chunk'.allResults) = Length(chunk.allResults) + res[1].n
       /\ (pc = "chunkDelay" /\ pc' # "chunkDelay") => Len(calls') = Len(calls) + 1
       /\ pc' = "resolved" => pc # "chunkDelay"]_vars
C33_Witness ==
    /\ Len(calls) = 3
    /\ pc = "http"
    /\ ~chunk.direct
    /\ wakeAt = None
    /\ calls[1].got # None
    /\ calls[2].got # None
    /\ calls[3].got = None

\* C35.  A searchOccurrences call that fails leaves the cache as it is: from the miss to
\* the failure, over retries and waits, every entry keeps its data, no entry appears,
\* and the only entry that can go is the expired one under the key of the call, which the
\* lookup of the call removes.  When the call fails no entry is under its key, so that the
\* next call with the same parameters misses and issues a request.
C35_FailureLeavesCache ==
    [][/\ (pc \in {"http", "retryWait"} /\ pc' \in {"http", "retryWait", "rejected"})
            => /\ DOMAIN cache' = DOMAIN cache
               /\ \A k \in DOMAIN cache : cache'[k].data = cache[k].data
               /\ pc' = "rejected" => cache' = cache
       /\ pc' \in {"http", "retryWait", "rejected"}
            => LET key == IF pc' = "rejected" THEN call.key ELSE call'.key
               IN  /\ key \notin DOMAIN cache'
                   /\ getCached(cache', key, now').value = None
       /\ (Len(calls') > Len(calls) /\ pc' = "http")
            => /\ DOMAIN cache' \subseteq DOMAIN cache
               /\ \A k \in DOMAIN cache' : cache'[k] = cache[k]
               /\ \A k \in DOMAIN cache \ DOMAIN cache' :
                    k = call'.key /\ now > cache[k].expiresAt]_vars
C35_Witness ==
    /\ pc = "rejected"
    /\ outcome.kind = "error"
    /\ outcome.status = Some(429)
    /\ Len(calls) = 2
    /\ calls[1].got # None
    /\ Cardinality(DOMAIN cache) = 1

\* C36.  A cache hit of searchOccurrences returns only a response that was fetched with
\* exactly the transmitted parameters of the hitting call, and the entry under the key of
\* a call never holds a response fetched with other transmitted parameters: calls that
\* differ in a transmitted value (two pages of different offset, two taxon selections)
\* share no cache entry.
C36_HitOnlyForSameQuery ==
    [][/\ (Len(calls') > Len(calls) /\ call'.hit)
            => LET w == serializeOccurrenceParams(call'.params)
               IN  /\ w \in DOMAIN fetched
                   /\ res'[1].id \in fetched[w].ids
                   /\ \A v \in DOMAIN fetched \ {w} : res'[1].id \notin fetched[v].ids
       /\ (call' # NoCall /\ call'.key \in DOMAIN cache')
            => LET w == serializeOccurrenceParams(call'.params)
               IN  /\ w \in DOMAIN fetched'
                   /\ cache'[call'.key].data.id \in fetched'[w].ids]_vars
\* the second page of two taxa is served from the cache while the first page, which
\* differs from it in the offset alone, is cached as well
C36_Witness ==
    /\ pc = "page" /\ call.hit
    /\ call.params.offset = 300
    /\ call.params.taxonKey.v = << 212, 359 >>
    /\ \E v \in DOMAIN fetched :
         /\ v = [serializeOccurrenceParams(call.params) EXCEPT !.offset = 0]
         /\ \E k \in DOMAIN cache : cache[k].data.id = fetched[v].id /\ k # call.key

\* C37 (as the specification states it).  Whenever the error string of the refetch
\* controller is non-null, its displayed API occurrence set is empty, whatever the order in
\* which overlapping fetches settle.
C37_ErrorMeansNoResults == error # None => occurrences = << >>

\* C38 (as the specification states it).  While the filters have no taxon constraint, the
\* displayed API occurrence set and the occurrence set reported to the parent are empty,
\* also after a fetch that was in flight when the constraint was removed has settled.
C38_EmptyWithoutTaxon ==
    NoTaxonConstraint(filters) => occurrences = << >> /\ reported = << >>

\* C34.  A change of the selected year or month of the timeline changes only which
\* records are displayed: it starts no fetch, starts and cancels no debounce timer, and
\* leaves the fetched API occurrences, the reported ones, the imported ones, the error
\* string and the loading flag as they are.
C34_TimelineOnlyFiltersDisplay ==
    [][(<< selectedYear, selectedMonth >>' # << selectedYear, selectedMonth >>
        /\ filters' = filters)
         => /\ timers' = timers
            /\ fetchTimeout' = fetchTimeout
            /\ started' = started
            /\ inflight' = inflight
            /\ occurrences' = occurrences
            /\ reported' = reported
            /\ importedOccurrences' = importedOccurrences
            /\ error' = error
            /\ loading' = loading]_vars
\* a year is selected while a debounce timer is pending and a fetch is in flight, with
\* API records and imported records present
C34_Witness ==
    /\ selectedYear # None
    /\ selectedMonth # None
    /\ timers # {}
    /\ inflight # EmptyMap
    /\ occurrences # << >>
    /\ importedOccurrences # << >>

\* C39.  For each PDF export request generateOccurrencePdf is called exactly once: by the
\* first canvas-ready event dispatched while the request has no report, which is before
\* its timer fires, and else by the timer when it fires; an event or a timer that comes
\* after the report generates nothing more; and every request eventually has its report.
C39_ReportExactlyOnce ==
    /\ [][\A i \in DOMAIN pdf'.requests :
            LET new == i \notin DOMAIN pdf.requests
                reportsBefore == IF new THEN << >> ELSE pdf.requests[i].reports
                timerBefore == new \/ pdf.requests[i].timer
                after == pdf'.requests[i]
                event == pdf'.events > pdf.events
                fired == timerBefore /\ ~after.timer
            IN  /\ Len(after.reports) <= 1
                /\ (event /\ reportsBefore = << >>)
                     => /\ Len(after.reports) = 1
                        /\ after.reports[1].cause = "event"
                        /\ after.timer
                /\ (fired /\ reportsBefore = << >>)
                     => after.reports = << [cause |-> "timeout", image |-> None] >>
                /\ reportsBefore # << >> => after.reports = reportsBefore
                /\ (~event /\ ~fired) => after.reports = reportsBefore
                /\ ~after.timer => Len(after.reports) = 1]_vars
    /\ \A i \in 1..MaxPdfRequests :
         (Len(pdf.requests) >= i)
           ~> (Len(pdf.requests) >= i /\ Len(pdf.requests[i].reports) = 1)
\* the first request got its report from its timer and a canvas-ready event came after
\* it; the second got its report from an event and its timer fired after it
C39_Witness ==
    /\ Len(pdf.requests) = 2
    /\ pdf.requests[1].reports = << [cause |-> "timeout", image |-> None] >>
    /\ pdf.requests[2].reports = << [cause |-> "event", image |-> Some("dataUrl")] >>
    /\ ~pdf.requests[2].timer
    /\ pdf.events = 2
    /\ pdf.frames = 0

====
